---- MODULE Spec2Model ----
(***************************************************************************)
(* TraceScribe: the UIF document tree, the translation subsystem           *)
(* (text extraction, caching, batching, parallel dispatch, patching) and   *)
(* the render orchestrator of the document engine.                         *)
(*                                                                         *)
(* A text is a sequence of one-character strings, so that emptiness and    *)
(* str.strip() are computed and not assumed.  An Optional[X] field is a    *)
(* sequence of length 0 (None) or 1.  A path "a.0.b" is the sequence of    *)
(* its dot-separated segments <<"a", "0", "b">>.                           *)
(***************************************************************************)
EXTENDS Integers, Sequences, FiniteSets, TLC

(***************************************************************************)
(* Texts                                                                   *)
(***************************************************************************)
Whitespace == {" ", "\n", "\t"}

RECURSIVE LStrip(_)
LStrip(t) == IF t # <<>> /\ Head(t) \in Whitespace THEN LStrip(Tail(t)) ELSE t

RECURSIVE RStrip(_)
RStrip(t) ==
    IF t # <<>> /\ t[Len(t)] \in Whitespace
    THEN RStrip(SubSeq(t, 1, Len(t) - 1))
    ELSE t

\* str.strip()
Strip(t) == RStrip(LStrip(t))

\* truthiness of a str
Truthy(t) == Len(t) > 0

RECURSIVE ConcatAll(_)
ConcatAll(ss) == IF ss = <<>> THEN <<>> ELSE Head(ss) \o ConcatAll(Tail(ss))

None == <<>>
Some(x) == <<x>>
IsSome(o) == Len(o) = 1

(***************************************************************************)
(* UIF tree model (schema.py)                                              *)
(***************************************************************************)
\* a list item: Union[str, dict]; a dict item may or may not carry "text",
\* and may carry the "content" key
StrItem(t) ==
    [kind |-> "str", has_text |-> TRUE, text |-> t, has_content |-> FALSE,
     content |-> <<>>, level |-> 0]
DictItem(has, t, lvl) ==
    [kind |-> "dict", has_text |-> has, text |-> t, has_content |-> FALSE,
     content |-> <<>>, level |-> lvl]
ContentItem(c, lvl) ==
    [kind |-> "dict", has_text |-> FALSE, text |-> <<>>, has_content |-> TRUE,
     content |-> c, level |-> lvl]

\* a table cell: Union[str, TableCell]
StrCell(t) ==
    [kind |-> "str", content |-> t, colspan |-> 1, rowspan |-> 1,
     alignment |-> "left", background_color |-> None]
TableCell(t, cs) ==
    [kind |-> "cell", content |-> t, colspan |-> cs, rowspan |-> 1,
     alignment |-> "left", background_color |-> None]

TableBlock(hs, rs) ==
    [headers |-> hs, rows |-> rs, column_widths |-> None,
     style |-> "Table Grid", header_background |-> "#CCCCCC"]

SignatureLine(l) == [label |-> l, line_width_inches |-> 3]
SignatureBlock(pre, ls) == [preamble |-> pre, lines |-> ls]

ContentBlock(ty, c, lvl, its, tb, sg) ==
    [type |-> ty, content |-> c, level |-> lvl, formatting |-> None,
     alignment |-> "left", spacing_before |-> 0, spacing_after |-> 0,
     items |-> its, list_style |-> None, table |-> tb, signature |-> sg]

Paragraph(c) == ContentBlock("paragraph", c, None, None, None, None)
Heading(c, lvl) == ContentBlock("heading", c, lvl, None, None, None)
PageBreak == ContentBlock("page_break", <<>>, None, None, None, None)
BulletList(its) == ContentBlock("bullet_list", <<>>, None, its, None, None)
NumberedList(its) == ContentBlock("numbered_list", <<>>, None, its, None, None)
Table(tb) == ContentBlock("table", <<>>, None, None, tb, None)
Signature(sg) == ContentBlock("signature_block", <<>>, None, None, None, sg)

Section(i, lvl, h, bs, subs) ==
    [id |-> i, level |-> lvl, heading |-> h, content_blocks |-> bs,
     subsections |-> subs]

PageSetup(w, h, m) ==
    [page_width |-> w, page_height |-> h, margin_top |-> m,
     margin_bottom |-> m, margin_left |-> m, margin_right |-> m]

DocumentStyling(fs, ls) == [default_font_size |-> fs, line_spacing |-> ls]

HeaderFooter == [header_text |-> None, footer_text |-> None,
                 show_page_numbers |-> TRUE]

UniversalDocument(dt, t, secs) ==
    [uif_version |-> "1.0", document_type |-> dt, title |-> t,
     styling |-> DocumentStyling(11, 115), page_setup |-> PageSetup(85, 110, 10),
     header_footer |-> HeaderFooter, sections |-> secs]

(***************************************************************************)
(* Path addressing: the extractor (parallel_translator.py)                 *)
(***************************************************************************)
TextItem(p, t) == [path |-> p, text |-> t]

\* f"{base_path}.{i}"
Idx(base, i) == base \o <<ToString(i)>>

CollectFromItem(item, k, base_path) ==
    IF item.kind = "str" /\ Truthy(Strip(item.text))
    THEN <<TextItem(Idx(base_path \o <<"items">>, k), item.text)>>
    ELSE IF item.kind = "dict" /\ item.has_text /\ Truthy(item.text)
    THEN <<TextItem(Idx(base_path \o <<"items">>, k) \o <<"text">>, item.text)>>
    ELSE <<>>

\* a collector that records a structured cell under the cell path itself
CollectCellAtCellPath(cell, r, c, base_path) ==
    LET cell_path == Idx(Idx(base_path \o <<"table", "rows">>, r), c)
    IN  IF Truthy(cell.content) /\ Truthy(Strip(cell.content))
        THEN <<TextItem(cell_path, cell.content)>>
        ELSE <<>>

CollectFromCell(cell, r, c, base_path) ==
    LET cell_path == Idx(Idx(base_path \o <<"table", "rows">>, r), c)
    IN  IF cell.kind = "str" /\ Truthy(Strip(cell.content))
        THEN <<TextItem(cell_path, cell.content)>>
        ELSE IF cell.kind = "cell" /\ Truthy(cell.content) /\ Truthy(Strip(cell.content))
        THEN <<TextItem(cell_path \o <<"content">>, cell.content)>>
        ELSE <<>>

CollectFromTable(tb, base_path) ==
    ConcatAll([k \in 1..Len(tb.headers) |->
        IF Truthy(tb.headers[k]) /\ Truthy(Strip(tb.headers[k]))
        THEN <<TextItem(Idx(base_path \o <<"table", "headers">>, k - 1), tb.headers[k])>>
        ELSE <<>>])
    \o
    ConcatAll([r \in 1..Len(tb.rows) |->
        ConcatAll([c \in 1..Len(tb.rows[r]) |->
            CollectFromCell(tb.rows[r][c], r - 1, c - 1, base_path)])])

CollectFromSignature(sg, base_path) ==
    (IF IsSome(sg.preamble) /\ Truthy(sg.preamble[1])
     THEN <<TextItem(base_path \o <<"signature", "preamble">>, sg.preamble[1])>>
     ELSE <<>>)
    \o
    ConcatAll([l \in 1..Len(sg.lines) |->
        IF Truthy(sg.lines[l].label)
        THEN <<TextItem(Idx(base_path \o <<"signature", "lines">>, l - 1) \o <<"label">>,
                        sg.lines[l].label)>>
        ELSE <<>>])

_collect_from_block(block, base_path) ==
    (IF Truthy(block.content)
     THEN <<TextItem(base_path \o <<"content">>, block.content)>>
     ELSE <<>>)
    \o
    (IF IsSome(block.items) /\ Len(block.items[1]) > 0
     THEN ConcatAll([k \in 1..Len(block.items[1]) |->
              CollectFromItem(block.items[1][k], k - 1, base_path)])
     ELSE <<>>)
    \o
    (IF IsSome(block.table) THEN CollectFromTable(block.table[1], base_path) ELSE <<>>)
    \o
    (IF IsSome(block.signature)
     THEN CollectFromSignature(block.signature[1], base_path)
     ELSE <<>>)

RECURSIVE _collect_from_sections(_, _)
_collect_from_sections(sections, base_path) ==
    ConcatAll([i \in 1..Len(sections) |->
        LET section == sections[i]
            section_path == Idx(base_path, i - 1)
        IN  (IF Truthy(section.heading)
             THEN <<TextItem(section_path \o <<"heading">>, section.heading)>>
             ELSE <<>>)
            \o
            ConcatAll([j \in 1..Len(section.content_blocks) |->
                _collect_from_block(section.content_blocks[j],
                                    Idx(section_path \o <<"blocks">>, j - 1))])
            \o
            (IF Len(section.subsections) > 0
             THEN _collect_from_sections(section.subsections,
                                         section_path \o <<"subsections">>)
             ELSE <<>>)])

_collect_text_items(uif) ==
    (IF Truthy(uif.title) THEN <<TextItem(<<"title">>, uif.title)>> ELSE <<>>)
    \o _collect_from_sections(uif.sections, <<"sections">>)

(***************************************************************************)
(* Path addressing: the patcher (parallel_translator.py)                   *)
(* translations is a dict path -> text: a function whose DOMAIN is the set *)
(* of its keys.                                                            *)
(***************************************************************************)
Has(translations, p) == p \in DOMAIN translations

\* block.items[k] = translations[item_path]  /  block.items[k]["text"] = ...
\* a patcher that replaces a structured list item by its translated text
ApplyItemFlattening(item, k, base_path, translations) ==
    LET item_path == Idx(base_path \o <<"items">>, k)
        text_path == item_path \o <<"text">>
    IN  IF Has(translations, item_path)
        THEN StrItem(translations[item_path])
        ELSE IF item.kind = "dict" /\ Has(translations, text_path)
        THEN StrItem(translations[text_path])
        ELSE item

ApplyToItem(item, k, base_path, translations) ==
    LET item_path == Idx(base_path \o <<"items">>, k)
        text_path == item_path \o <<"text">>
    IN  IF Has(translations, item_path)
        THEN StrItem(translations[item_path])
        ELSE IF item.kind = "dict" /\ Has(translations, text_path)
        THEN [item EXCEPT !.has_text = TRUE, !.text = translations[text_path]]
        ELSE item

\* block.table.rows[r][c] = translations[cell_path]  /  cell.content = ...
ApplyToCell(cell, r, c, base_path, translations) ==
    LET cell_path == Idx(Idx(base_path \o <<"table", "rows">>, r), c)
        content_path == cell_path \o <<"content">>
    IN  IF Has(translations, cell_path)
        THEN StrCell(translations[cell_path])
        ELSE IF cell.kind = "cell" /\ Has(translations, content_path)
        THEN [cell EXCEPT !.content = translations[content_path]]
        ELSE cell

ApplyToTable(tb, base_path, translations) ==
    [tb EXCEPT
        !.headers = [k \in 1..Len(tb.headers) |->
            LET header_path == Idx(base_path \o <<"table", "headers">>, k - 1)
            IN  IF Has(translations, header_path)
                THEN translations[header_path]
                ELSE tb.headers[k]],
        !.rows = [r \in 1..Len(tb.rows) |->
            [c \in 1..Len(tb.rows[r]) |->
                ApplyToCell(tb.rows[r][c], r - 1, c - 1, base_path, translations)]]]

ApplyToSignature(sg, base_path, translations) ==
    LET preamble_path == base_path \o <<"signature", "preamble">>
    IN  [sg EXCEPT
            !.preamble = IF Has(translations, preamble_path)
                         THEN Some(translations[preamble_path])
                         ELSE sg.preamble,
            !.lines = [l \in 1..Len(sg.lines) |->
                LET label_path ==
                        Idx(base_path \o <<"signature", "lines">>, l - 1) \o <<"label">>
                IN  IF Has(translations, label_path)
                    THEN [sg.lines[l] EXCEPT !.label = translations[label_path]]
                    ELSE sg.lines[l]]]

_apply_to_block(block, base_path, translations) ==
    LET content_path == base_path \o <<"content">>
    IN  [block EXCEPT
            !.content = IF Has(translations, content_path)
                        THEN translations[content_path]
                        ELSE block.content,
            !.items = IF IsSome(block.items) /\ Len(block.items[1]) > 0
                      THEN Some([k \in 1..Len(block.items[1]) |->
                               ApplyToItem(block.items[1][k], k - 1, base_path,
                                           translations)])
                      ELSE block.items,
            !.table = IF IsSome(block.table)
                      THEN Some(ApplyToTable(block.table[1], base_path, translations))
                      ELSE block.table,
            !.signature = IF IsSome(block.signature)
                          THEN Some(ApplyToSignature(block.signature[1], base_path,
                                                     translations))
                          ELSE block.signature]

RECURSIVE _apply_to_sections(_, _, _)
_apply_to_sections(sections, base_path, translations) ==
    [i \in 1..Len(sections) |->
        LET section == sections[i]
            section_path == Idx(base_path, i - 1)
            heading_path == section_path \o <<"heading">>
        IN  [section EXCEPT
                !.heading = IF Has(translations, heading_path)
                            THEN translations[heading_path]
                            ELSE section.heading,
                !.content_blocks = [j \in 1..Len(section.content_blocks) |->
                    _apply_to_block(section.content_blocks[j],
                                    Idx(section_path \o <<"blocks">>, j - 1),
                                    translations)],
                !.subsections = IF Len(section.subsections) > 0
                                THEN _apply_to_sections(section.subsections,
                                         section_path \o <<"subsections">>,
                                         translations)
                                ELSE section.subsections]]

_apply_translations(uif, translations) ==
    [uif EXCEPT
        !.title = IF Has(translations, <<"title">>)
                  THEN translations[<<"title">>]
                  ELSE uif.title,
        !.sections = _apply_to_sections(uif.sections, <<"sections">>, translations)]

\* the set of paths of a list of text items
PathsOf(items) == {items[n].path : n \in 1..Len(items)}
\* a dict keeps the last value written for a key
IdentityMap(items) ==
    [p \in PathsOf(items) |->
        items[CHOOSE n \in 1..Len(items) :
                items[n].path = p /\ \A m \in n + 1..Len(items) : items[m].path # p].text]

(***************************************************************************)
(* Batcher (batcher.py): the numbered-delimiter protocol                   *)
(***************************************************************************)
DigitChars == <<"0", "1", "2", "3", "4", "5", "6", "7", "8", "9">>
IsDigit(c) == \E d \in 1..10 : DigitChars[d] = c
DigitVal(c) == (CHOOSE d \in 1..10 : DigitChars[d] = c) - 1

\* str(i) for i >= 0
RECURSIVE Decimal(_)
Decimal(i) ==
    IF i < 10 THEN <<DigitChars[i + 1]>>
    ELSE Decimal(i \div 10) \o <<DigitChars[(i % 10) + 1]>>

\* int(digits)
RECURSIVE IntOf(_)
IntOf(ds) ==
    IF ds = <<>> THEN 0 ELSE IntOf(SubSeq(ds, 1, Len(ds) - 1)) * 10 + DigitVal(ds[Len(ds)])

Bars == <<"|", "|", "|">>

\* "\n".join(parts)
RECURSIVE JoinLines(_)
JoinLines(parts) ==
    IF parts = <<>> THEN <<>>
    ELSE IF Len(parts) = 1 THEN parts[1]
    ELSE parts[1] \o <<"\n">> \o JoinLines(Tail(parts))

TranslationBatch(its) == [items |-> its]

\* markers numbered from one
BatchedTextFromOne(batch) ==
    JoinLines([i \in 1..Len(batch.items) |->
        Bars \o Decimal(i) \o Bars \o <<" ">> \o batch.items[i].text])

to_batched_text(batch) ==
    JoinLines([i \in 1..Len(batch.items) |->
        Bars \o Decimal(i - 1) \o Bars \o <<" ">> \o batch.items[i].text])

HasBarsAt(s, p) == p + 2 <= Len(s) /\ s[p] = "|" /\ s[p + 1] = "|" /\ s[p + 2] = "|"

\* the end (exclusive) of the run of digits that starts at p
RECURSIVE DigitsEnd(_, _)
DigitsEnd(s, p) == IF p <= Len(s) /\ IsDigit(s[p]) THEN DigitsEnd(s, p + 1) ELSE p

\* DELIMITER_PATTERN.finditer(response): the non-overlapping matches of three
\* bars, one or more digits, three bars from position p on, leftmost first; a match is
\* [start, end, idx] with 1-based start and exclusive end
RECURSIVE FindMarkers(_, _)
FindMarkers(s, p) ==
    IF p > Len(s) THEN <<>>
    ELSE LET e == DigitsEnd(s, p + 3)
         IN  IF HasBarsAt(s, p) /\ e > p + 3 /\ HasBarsAt(s, e)
             THEN <<[start |-> p, end |-> e + 3, idx |-> IntOf(SubSeq(s, p + 3, e - 1))]>>
                  \o FindMarkers(s, e + 3)
             ELSE FindMarkers(s, p + 1)

(* clean_translation *)
LowerOf ==
    [c \in {"N", "O", "T", "E", "H", "R", "I", "S", "A", "L", "D", "X"} |->
        CASE c = "N" -> "n" [] c = "O" -> "o" [] c = "T" -> "t" [] c = "E" -> "e"
          [] c = "H" -> "h" [] c = "R" -> "r" [] c = "I" -> "i" [] c = "S" -> "s"
          [] c = "A" -> "a" [] c = "L" -> "l" [] c = "D" -> "d" [] c = "X" -> "x"]
Lower(c) == IF c \in DOMAIN LowerOf THEN LowerOf[c] ELSE c

\* text[p:].lower().startswith(word), p 1-based, word in lower case
StartsWithAt(t, p, word) ==
    /\ p + Len(word) - 1 <= Len(t)
    /\ \A k \in 1..Len(word) : Lower(t[p + k - 1]) = word[k]

\* text.split("\n")
RECURSIVE SplitLines(_)
SplitLines(t) ==
    IF \A k \in 1..Len(t) : t[k] # "\n" THEN <<t>>
    ELSE LET n == CHOOSE k \in 1..Len(t) : t[k] = "\n" /\ \A j \in 1..k - 1 : t[j] # "\n"
         IN  <<SubSeq(t, 1, n - 1)>> \o SplitLines(SubSeq(t, n + 1, Len(t)))

\* the backquote character (named: the lexer of the tools rejects it in a string)
Backquote == "BACKQUOTE"
Fence == <<Backquote, Backquote, Backquote>>

\* the markdown code block step
RemoveFence(t) ==
    IF StartsWithAt(t, 1, Fence)
    THEN LET lines0 == Tail(SplitLines(t))
             lines1 == IF lines0 # <<>> /\ StartsWithAt(Strip(lines0[Len(lines0)]), 1, Fence)
                       THEN SubSeq(lines0, 1, Len(lines0) - 1)
                       ELSE lines0
         IN  Strip(JoinLines(lines1))
    ELSE t

RECURSIVE SkipSpace(_, _)
SkipSpace(t, p) == IF p <= Len(t) /\ t[p] \in Whitespace THEN SkipSpace(t, p + 1) ELSE p

IsWordChar(c) == c \notin Whitespace /\ c \notin {":", "|", "(", ")", "[", "]", Backquote, ".", ","}

RECURSIVE SkipWord(_, _)
SkipWord(t, p) == IF p <= Len(t) /\ IsWordChar(t[p]) THEN SkipWord(t, p + 1) ELSE p

W_here == <<"h", "e", "r", "e", " ", "i", "s", " ", "t", "h", "e", " ">>
W_the == <<"t", "h", "e", " ">>
W_translation == <<"t", "r", "a", "n", "s", "l", "a", "t", "i", "o", "n">>
W_translated == <<"t", "r", "a", "n", "s", "l", "a", "t", "e", "d", " ", "t", "e", "x", "t">>
W_note == <<"n", "o", "t", "e", ":">>

\* position after the optional "Here is the " or "The " prefix
AfterArticle(t) ==
    IF StartsWithAt(t, 1, W_here) THEN {Len(W_here) + 1, 1}
    ELSE IF StartsWithAt(t, 1, W_the) THEN {Len(W_the) + 1, 1}
    ELSE {1}

\* the position of the colon after the optional " in <word>" group, tried greedily
AfterLanguage(t, p) ==
    LET a == SkipSpace(t, p)
        b == IF a > p /\ StartsWithAt(t, a, <<"i", "n">>) THEN SkipSpace(t, a + 2) ELSE 0
        c == IF b > a + 2 THEN SkipWord(t, b) ELSE 0
    IN  IF c > b /\ b > 0 /\ c <= Len(t) /\ t[c] = ":" THEN c
        ELSE IF p <= Len(t) /\ t[p] = ":" THEN p
        ELSE 0

\* wrapper pattern 1: [Here is the |The ]translation[ in <word>]: at the start
RemoveWrapper1(t) ==
    LET hits == {q \in AfterArticle(t) :
                    /\ StartsWithAt(t, q, W_translation)
                    /\ AfterLanguage(t, q + Len(W_translation)) > 0}
    IN  IF hits = {} THEN t
        ELSE LET q == CHOOSE x \in hits : \A y \in hits : y <= x
                 colon == AfterLanguage(t, q + Len(W_translation))
             IN  SubSeq(t, SkipSpace(t, colon + 1), Len(t))

\* wrapper pattern 2: [Here is the |The ]translated text: at the start
RemoveWrapper2(t) ==
    LET hits == {q \in AfterArticle(t) :
                    /\ StartsWithAt(t, q, W_translated)
                    /\ q + Len(W_translated) <= Len(t)
                    /\ t[q + Len(W_translated)] = ":"}
    IN  IF hits = {} THEN t
        ELSE LET q == CHOOSE x \in hits : \A y \in hits : y <= x
             IN  SubSeq(t, SkipSpace(t, q + Len(W_translated) + 1), Len(t))

\* wrapper pattern 3: translation: at the start
RemoveWrapper3(t) ==
    IF StartsWithAt(t, 1, W_translation \o <<":">>)
    THEN SubSeq(t, SkipSpace(t, Len(W_translation) + 2), Len(t))
    ELSE t

\* the start of the whitespace run that ends just before position p
RECURSIVE SpaceStart(_, _)
SpaceStart(t, p) == IF p > 1 /\ t[p - 1] \in Whitespace THEN SpaceStart(t, p - 1) ELSE p

\* trailing notes: the leftmost "(Note:" or "[Note:" (with the whitespace before
\* it) whose remainder reaches a closing bracket at the end of the text
RemoveNote(t) ==
    LET ends == Len(t) > 0 /\ (t[Len(t)] \in {")", "]"}
                               \/ (Len(t) > 1 /\ t[Len(t)] = "\n"
                                   /\ t[Len(t) - 1] \in {")", "]"}))
        close == IF t[Len(t)] = "\n" THEN Len(t) - 1 ELSE Len(t)
        opens == {p \in 1..Len(t) :
                    /\ t[p] \in {"(", "["}
                    /\ StartsWithAt(t, p + 1, W_note)
                    /\ p + Len(W_note) < close}
    IN  IF ends /\ opens # {}
        THEN LET p == CHOOSE x \in opens : \A y \in opens : x <= y
             IN  SubSeq(t, 1, SpaceStart(t, p) - 1)
                 \o (IF close < Len(t) THEN <<"\n">> ELSE <<>>)
        ELSE t

clean_translation(text) ==
    IF ~Truthy(text) THEN <<>>
    ELSE Strip(RemoveNote(RemoveWrapper3(RemoveWrapper2(RemoveWrapper1(
             RemoveFence(Strip(text)))))))

\* TranslationBatch.parse_response: a list of expected_count texts
\* a parser that keeps the first segment of a repeated index
ParseFirstWins(response, expected_count) ==
    LET matches == FindMarkers(response, 1)
        \* the first match for an index is kept
        last(i) == CHOOSE m \in 1..Len(matches) :
                       /\ matches[m].idx = i
                       /\ \A m2 \in 1..m - 1 : matches[m2].idx # i
        segment(m) == SubSeq(response, matches[m].end,
                             IF m + 1 <= Len(matches)
                             THEN matches[m + 1].start - 1
                             ELSE Len(response))
    IN  IF ~Truthy(response) THEN [i \in 1..expected_count |-> <<>>]
        ELSE IF matches = <<>>
        THEN IF expected_count = 1 THEN <<clean_translation(response)>>
             ELSE <<Strip(response)>> \o [i \in 1..expected_count - 1 |-> <<>>]
        ELSE [i \in 1..expected_count |->
                 IF \E m \in 1..Len(matches) : matches[m].idx = i - 1
                 THEN clean_translation(Strip(segment(last(i - 1))))
                 ELSE <<>>]

parse_response(response, expected_count) ==
    LET matches == FindMarkers(response, 1)
        \* result[idx]: a later match for the same index overwrites an earlier one
        last(i) == CHOOSE m \in 1..Len(matches) :
                       /\ matches[m].idx = i
                       /\ \A m2 \in m + 1..Len(matches) : matches[m2].idx # i
        segment(m) == SubSeq(response, matches[m].end,
                             IF m + 1 <= Len(matches)
                             THEN matches[m + 1].start - 1
                             ELSE Len(response))
    IN  IF ~Truthy(response) THEN [i \in 1..expected_count |-> <<>>]
        ELSE IF matches = <<>>
        THEN IF expected_count = 1 THEN <<clean_translation(response)>>
             ELSE <<Strip(response)>> \o [i \in 1..expected_count - 1 |-> <<>>]
        ELSE [i \in 1..expected_count |->
                 IF \E m \in 1..Len(matches) : matches[m].idx = i - 1
                 THEN clean_translation(Strip(segment(last(i - 1))))
                 ELSE <<>>]

\* a packing loop that closes the current batch even when it is empty
RECURSIVE BatchLoopUnguarded(_, _, _, _)
BatchLoopUnguarded(items, st, max_items, max_chars) ==
    IF items = <<>> THEN st
    ELSE LET item == Head(items)
             item_chars == Len(item.text) + 10
             close == Len(st.current) >= max_items
                      \/ st.current_chars + item_chars > max_chars
             st1 == IF close
                    THEN [batches |-> Append(st.batches, TranslationBatch(st.current)),
                          current |-> <<>>, current_chars |-> 0]
                    ELSE st
         IN  BatchLoopUnguarded(Tail(items),
                       [st1 EXCEPT !.current = Append(st1.current, item),
                                   !.current_chars = st1.current_chars + item_chars],
                       max_items, max_chars)

\* create_batches: greedy packing; st is the loop state after each item
RECURSIVE BatchLoop(_, _, _, _)
BatchLoop(items, st, max_items, max_chars) ==
    IF items = <<>> THEN st
    ELSE LET item == Head(items)
             item_chars == Len(item.text) + 10
             close == (Len(st.current) >= max_items
                       \/ st.current_chars + item_chars > max_chars)
                      /\ st.current # <<>>
             st1 == IF close
                    THEN [batches |-> Append(st.batches, TranslationBatch(st.current)),
                          current |-> <<>>, current_chars |-> 0]
                    ELSE st
         IN  BatchLoop(Tail(items),
                       [st1 EXCEPT !.current = Append(st1.current, item),
                                   !.current_chars = st1.current_chars + item_chars],
                       max_items, max_chars)

\* a packing that closes a batch one item late
CreateBatchesLate(items, max_items, max_chars) ==
    LET st == BatchLoop(items, [batches |-> <<>>, current |-> <<>>, current_chars |-> 0],
                        max_items + 1, max_chars)
    IN  IF st.current # <<>> THEN Append(st.batches, TranslationBatch(st.current))
        ELSE st.batches

create_batches(items, max_items, max_chars) ==
    LET st == BatchLoop(items, [batches |-> <<>>, current |-> <<>>, current_chars |-> 0],
                        max_items, max_chars)
    IN  IF st.current # <<>> THEN Append(st.batches, TranslationBatch(st.current))
        ELSE st.batches

\* the defaults of create_batches
DEFAULT_MAX_ITEMS == 5
DEFAULT_MAX_CHARS == 1000

(***************************************************************************)
(* Translation cache (cache.py)                                            *)
(***************************************************************************)
HashAlphabet ==
    <<"a", "b", "c", "d", "e", "f", "g", "A", "B", "C", "D", "E", "F", "G", " ">>

\* hash(text): Python's str hash, taken as collision-free on the short texts
\* of the model (a positional code over the alphabet, no zero digit)
RECURSIVE HashText(_)
HashText(t) ==
    IF t = <<>> THEN 0
    ELSE HashText(SubSeq(t, 1, Len(t) - 1)) * (Len(HashAlphabet) + 1)
         + (CHOOSE n \in 1..Len(HashAlphabet) : HashAlphabet[n] = t[Len(t)])

\* f"{language}:{hash(text)}"
_make_key(text, language) == <<language, HashText(text)>>

TranslationCache == [_cache |-> <<>>, _hits |-> 0, _misses |-> 0]

\* TranslationCache.get: the Optional result and the cache after the call
\* a lookup that never finds anything
cache_get_miss(cache, text, language) ==
    [result |-> None, cache |-> [cache EXCEPT !._misses = @ + 1]]

cache_get(cache, text, language) ==
    LET key == _make_key(text, language)
    IN  IF key \in DOMAIN cache._cache
        THEN [result |-> Some(cache._cache[key]),
              cache |-> [cache EXCEPT !._hits = @ + 1]]
        ELSE [result |-> None,
              cache |-> [cache EXCEPT !._misses = @ + 1]]

\* self._cache[key] = translation
DictSet(d, key, value) ==
    [k \in DOMAIN d \cup {key} |-> IF k = key THEN value ELSE d[k]]

cache_set(cache, text, language, translation) ==
    [cache EXCEPT !._cache = DictSet(@, _make_key(text, language), translation)]

(***************************************************************************)
(* Parallel translator (parallel_translator.py)                            *)
(***************************************************************************)
MAX_CONCURRENT == 1
max_retries == 4
base_delay == 5

\* step 3 of translate_uif: split the items by a cache lookup each;
\* acc is [cached_translations, uncached_items, cache]
\* a filter that stores every text it misses as its own translation
RECURSIVE FilterCachedStoring(_, _, _)
FilterCachedStoring(text_items, target_language, acc) ==
    IF text_items = <<>> THEN acc
    ELSE LET item == Head(text_items)
             got == cache_get(acc.cache, item.text, target_language)
         IN  FilterCachedStoring(Tail(text_items), target_language,
                 IF IsSome(got.result)
                 THEN [acc EXCEPT !.cache = got.cache,
                                  !.cached_translations =
                                      DictSet(@, item.path, got.result[1])]
                 ELSE [acc EXCEPT !.cache = cache_set(got.cache, item.text,
                                                      target_language, item.text),
                                  !.uncached_items = Append(@, item)])

RECURSIVE FilterCached(_, _, _)
FilterCached(text_items, target_language, acc) ==
    IF text_items = <<>> THEN acc
    ELSE LET item == Head(text_items)
             got == cache_get(acc.cache, item.text, target_language)
         IN  FilterCached(Tail(text_items), target_language,
                 IF IsSome(got.result)
                 THEN [acc EXCEPT !.cache = got.cache,
                                  !.cached_translations =
                                      DictSet(@, item.path, got.result[1])]
                 ELSE [acc EXCEPT !.cache = got.cache,
                                  !.uncached_items = Append(@, item)])

\* what one attempt of _translate_batch does with the backend's answer
\* r = [kind |-> "text", text |-> response] or [kind |-> "raise"]:
\* "continue" (next attempt), "return" a list, or "raise"
NonEmpty(translations) ==
    Cardinality({j \in 1..Len(translations) : Truthy(Strip(translations[j]))})

\* an attempt loop that allows one attempt more than max_retries
AttemptOutcomeExtraRetry(batch, attempt, r) ==
    LET n == Len(batch.items)
    IN  IF r.kind = "raise"
        THEN IF attempt < max_retries
             THEN [kind |-> "continue", value |-> <<>>]
             ELSE [kind |-> "raise", value |-> <<>>]
        ELSE IF ~Truthy(r.text) \/ ~Truthy(Strip(r.text))
        THEN IF attempt < max_retries
             THEN [kind |-> "continue", value |-> <<>>]
             ELSE [kind |-> "return", value |-> [j \in 1..n |-> <<>>]]
        ELSE LET translations == parse_response(r.text, n)
             IN  IF NonEmpty(translations) < n \div 2 /\ attempt < max_retries
                 THEN [kind |-> "continue", value |-> <<>>]
                 ELSE [kind |-> "return", value |-> translations]

AttemptOutcome(batch, attempt, r) ==
    LET n == Len(batch.items)
    IN  IF r.kind = "raise"
        THEN IF attempt < max_retries - 1
             THEN [kind |-> "continue", value |-> <<>>]
             ELSE [kind |-> "raise", value |-> <<>>]
        ELSE IF ~Truthy(r.text) \/ ~Truthy(Strip(r.text))
        THEN IF attempt < max_retries - 1
             THEN [kind |-> "continue", value |-> <<>>]
             ELSE [kind |-> "return", value |-> [j \in 1..n |-> <<>>]]
        ELSE LET translations == parse_response(r.text, n)
             IN  IF NonEmpty(translations) < n \div 2 /\ attempt < max_retries - 1
                 THEN [kind |-> "continue", value |-> <<>>]
                 ELSE [kind |-> "return", value |-> translations]

\* delay = base_delay * (attempt + 1)
Delay(attempt) == base_delay * (attempt + 1)

\* translation or item.text
\* the translation as it came, with no fallback to the original
TranslationOnly(translation, text) == translation

OrOriginal(translation, text) == IF Truthy(translation) THEN translation ELSE text

\* asyncio.gather(*tasks, return_exceptions=True)
\* gather that lets the first exception propagate
PropagateExceptions == FALSE

ReturnExceptions == TRUE

\* the writes of the result loop for one batch, in order: each is
\* [path, text, value, cached] (cached: the value also goes to the cache)
\* a result loop that writes nothing usable for a batch that raised
BatchWritesBlankOnRaise(batch, result) ==
    IF result.kind = "raise"
    THEN [j \in 1..Len(batch.items) |->
            [path |-> batch.items[j].path, text |-> batch.items[j].text,
             value |-> <<>>, cached |-> FALSE]]
    ELSE LET m == IF Len(result.value) < Len(batch.items)
                  THEN Len(result.value) ELSE Len(batch.items)
         IN  [j \in 1..m |->
                [path |-> batch.items[j].path, text |-> batch.items[j].text,
                 value |-> OrOriginal(result.value[j], batch.items[j].text),
                 cached |-> TRUE]]

BatchWrites(batch, result) ==
    IF result.kind = "raise"
    THEN [j \in 1..Len(batch.items) |->
            [path |-> batch.items[j].path, text |-> batch.items[j].text,
             value |-> batch.items[j].text, cached |-> FALSE]]
    ELSE LET m == IF Len(result.value) < Len(batch.items)
                  THEN Len(result.value) ELSE Len(batch.items)
         IN  [j \in 1..m |->
                [path |-> batch.items[j].path, text |-> batch.items[j].text,
                 value |-> OrOriginal(result.value[j], batch.items[j].text),
                 cached |-> TRUE]]

\* acc is [cached_translations, cache]
RECURSIVE ApplyWrites(_, _, _)
ApplyWrites(writes, target_language, acc) ==
    IF writes = <<>> THEN acc
    ELSE LET w == Head(writes)
         IN  ApplyWrites(Tail(writes), target_language,
                 [cached_translations |-> DictSet(acc.cached_translations, w.path, w.value),
                  cache |-> IF w.cached
                            THEN cache_set(acc.cache, w.text, target_language, w.value)
                            ELSE acc.cache])

\* the result loop of translate_uif over all batches
ProcessResults(batches, results, target_language, cached_translations, cache) ==
    ApplyWrites(ConcatAll([i \in 1..Len(batches) |-> BatchWrites(batches[i], results[i])]),
                target_language,
                [cached_translations |-> cached_translations, cache |-> cache])

\* copy.deepcopy(uif): a fresh object holding a copy of the tree; an object
\* store is [src |-> caller's tree, copy |-> Optional tree]
\* working on the source object itself instead of a clone
AliasCopy(store) == [ref |-> "src", store |-> store]

DeepCopy(store) == [ref |-> "copy", store |-> [store EXCEPT !.copy = Some(store.src)]]

Deref(store, ref) == IF ref = "src" THEN store.src ELSE store.copy[1]
WriteObj(store, ref, tree) ==
    IF ref = "src" THEN [store EXCEPT !.src = tree] ELSE [store EXCEPT !.copy = Some(tree)]

(***************************************************************************)
(* Document engine (engine.py): validation                                 *)
(***************************************************************************)
\* document_type.lower() on the type strings of the model
LowerType(dt) == IF dt = "ICF" THEN "icf" ELSE dt
valid_types == {"icf", "dmp", "sap"}

\* an error message "path: text", as its path prefix and its text
Err(path, msg) == [path |-> path, message |-> msg]

_validate_content_block(block, path) ==
    IF block.type = "heading"
    THEN IF ~IsSome(block.level) \/ block.level[1] < 1 \/ block.level[1] > 4
         THEN <<Err(path, "Heading level must be between 1 and 4")>>
         ELSE <<>>
    ELSE IF block.type = "table"
    THEN IF ~IsSome(block.table)
         THEN <<Err(path, "Table block requires table data")>>
         ELSE IF block.table[1].headers = <<>> /\ block.table[1].rows = <<>>
         THEN <<Err(path, "Table must have headers or rows")>>
         ELSE <<>>
    ELSE IF block.type \in {"bullet_list", "numbered_list"}
    THEN IF ~IsSome(block.items) \/ block.items[1] = <<>>
         THEN <<Err(path, "List block requires items")>>
         ELSE <<>>
    ELSE IF block.type = "signature_block"
    THEN IF ~IsSome(block.signature)
         THEN <<Err(path, "Signature block requires signature data")>>
         ELSE <<>>
    ELSE <<>>

RECURSIVE _validate_section(_, _)
_validate_section(section, path) ==
    (IF section.id = "" THEN <<Err(path, "Section ID is required")>> ELSE <<>>)
    \o (IF ~Truthy(section.heading)
        THEN <<Err(path, "Section heading is required")>> ELSE <<>>)
    \o (IF section.level < 1 \/ section.level > 4
        THEN <<Err(path, "Section level must be between 1 and 4")>> ELSE <<>>)
    \o ConcatAll([i \in 1..Len(section.content_blocks) |->
           _validate_content_block(section.content_blocks[i],
                                   path \o ".content_blocks[" \o ToString(i - 1) \o "]")])
    \o ConcatAll([i \in 1..Len(section.subsections) |->
           LET subsection_path == path \o ".subsections[" \o ToString(i - 1) \o "]"
           IN  (IF section.subsections[i].level <= section.level
                THEN <<Err(subsection_path, "Subsection level must be greater than parent level")>>
                ELSE <<>>)
               \o _validate_section(section.subsections[i], subsection_path)])

\* a validation that stops at the first section or block error
ValidateStopsAtFirst(document) ==
    LET all == ConcatAll([i \in 1..Len(document.sections) |->
                   _validate_section(document.sections[i],
                                     "sections[" \o ToString(i - 1) \o "]")])
        errors == (IF ~Truthy(document.title)
                   THEN <<Err("", "Document title is required")>> ELSE <<>>)
                  \o SubSeq(all, 1, 1)
    IN  [ok |-> Len(errors) = 0, errors |-> errors]

\* DocEngine.validate: [ok, errors]
validate(document) ==
    LET ps == document.page_setup
        errors ==
            (IF ~Truthy(document.title)
             THEN <<Err("", "Document title is required")>> ELSE <<>>)
            \o (IF document.document_type = ""
                THEN <<Err("", "Document type is required")>> ELSE <<>>)
            \o (IF document.sections = <<>>
                THEN <<Err("", "Document must have at least one section")>> ELSE <<>>)
            \o (IF document.document_type # ""
                   /\ LowerType(document.document_type) \notin valid_types
                THEN <<Err("", "Invalid document type")>> ELSE <<>>)
            \o ConcatAll([i \in 1..Len(document.sections) |->
                   _validate_section(document.sections[i], "sections[" \o ToString(i - 1) \o "]")])
            \o (IF ps.page_width <= 0
                THEN <<Err("", "Page width must be positive")>> ELSE <<>>)
            \o (IF ps.page_height <= 0
                THEN <<Err("", "Page height must be positive")>> ELSE <<>>)
            \o (IF ps.margin_top < 0
                THEN <<Err("", "Top margin cannot be negative")>> ELSE <<>>)
            \o (IF ps.margin_bottom < 0
                THEN <<Err("", "Bottom margin cannot be negative")>> ELSE <<>>)
            \o (IF ps.margin_left < 0
                THEN <<Err("", "Left margin cannot be negative")>> ELSE <<>>)
            \o (IF ps.margin_right < 0
                THEN <<Err("", "Right margin cannot be negative")>> ELSE <<>>)
            \o (IF document.styling.default_font_size <= 0
                THEN <<Err("", "Default font size must be positive")>> ELSE <<>>)
            \o (IF document.styling.line_spacing <= 0
                THEN <<Err("", "Line spacing must be positive")>> ELSE <<>>)
    IN  [ok |-> Len(errors) = 0, errors |-> errors]

(***************************************************************************)
(* Document engine (engine.py): rendering                                  *)
(* The output document is [serial, styled, body]; body lists what the      *)
(* builders were asked to emit, in order.                                  *)
(***************************************************************************)
Emitted(kind, text) == [kind |-> kind, text |-> text]

\* _init_document: a fresh output document and builders bound to it
_init_document(serial) == Some([serial |-> serial, styled |-> FALSE, body |-> <<>>])

\* _apply_styling: styling, page layout and header/footer on the document
_apply_styling(doc, document) == [doc EXCEPT !.styled = TRUE]

\* _render_title, behind "if document.title"
_render_title(doc, document) ==
    IF Truthy(document.title)
    THEN [doc EXCEPT !.body = Append(@, Emitted("title", document.title))]
    ELSE doc

\* _render_section: the heading, then the blocks, then the subsections
RECURSIVE SectionBody(_)
SectionBody(section) ==
    <<Emitted("heading", section.heading)>>
    \o [j \in 1..Len(section.content_blocks) |->
           Emitted(section.content_blocks[j].type, section.content_blocks[j].content)]
    \o ConcatAll([i \in 1..Len(section.subsections) |-> SectionBody(section.subsections[i])])

_render_sections(doc, document) ==
    [doc EXCEPT !.body = @ \o ConcatAll([i \in 1..Len(document.sections) |->
                                            SectionBody(document.sections[i])])]

\* if validate_first: ... if not is_valid: raise ValueError
\* an orchestrator that ignores the validation verdict
ValidationIgnored(validate_first, document) == FALSE

ValidationFails(validate_first, document) == validate_first /\ ~validate(document).ok

\* the container a save leaves behind, as the archive checks see it
required_files == {"[Content_Types].xml", "word/document.xml"}
Archive(readable, is_zip, corrupt, parts) ==
    [readable |-> readable, is_zip |-> is_zip, corrupt |-> corrupt, parts |-> parts]
GoodArchive == Archive(TRUE, TRUE, FALSE, required_files \cup {"word/styles.xml"})
Archives ==
    {GoodArchive,
     Archive(FALSE, TRUE, FALSE, required_files),
     Archive(TRUE, FALSE, FALSE, {}),
     Archive(TRUE, TRUE, TRUE, required_files),
     Archive(TRUE, TRUE, FALSE, {"[Content_Types].xml"}),
     Archive(TRUE, TRUE, FALSE, {"word/document.xml"})}

\* the ZIP validation of render: the error it raises, or "ok"
\* (BadZipFile is turned into ValueError; any other exception is re-raised)
VerifyArchive(a) ==
    IF ~a.readable THEN "OSError"
    ELSE IF ~a.is_zip THEN "ValueError"
    ELSE IF a.corrupt THEN "ValueError"
    ELSE IF required_files \ a.parts # {} THEN "ValueError"
    ELSE "ok"

Raised(type, stage) == [type |-> type, stage |-> stage]

(***************************************************************************)
(* Bounded universe of UIF trees                                           *)
(***************************************************************************)
MaxListLen == 2     \* items per list block
MaxCols == 1        \* headers / cells per row of a table block
MaxBlocks == 1      \* content blocks per section of a nested tree
MaxDepth == 1       \* subsection nesting depth of a nested tree

SeqsUpTo(S, n) == UNION {[1..k -> S] : k \in 0..n}

\* empty, whitespace-only and ordinary text
TextPool == {<<>>, <<" ">>, <<"a">>}
HeadingPool == {<<>>, <<"a">>}

ItemPool ==
    {StrItem(t) : t \in TextPool}
    \cup {DictItem(TRUE, t, 1) : t \in TextPool}
    \cup {DictItem(FALSE, <<>>, 0), ContentItem(<<"a">>, 1)}

CellPool == {StrCell(t) : t \in TextPool} \cup {TableCell(t, 1) : t \in TextPool}

BlockPool ==
    {Paragraph(t) : t \in TextPool}
    \cup {Heading(<<"a">>, Some(1)), PageBreak, BulletList(None)}
    \cup {BulletList(Some(l)) : l \in SeqsUpTo(ItemPool, MaxListLen)}
    \cup {Table(Some(TableBlock(hs, rs))) :
            hs \in SeqsUpTo(TextPool, MaxCols),
            rs \in SeqsUpTo(SeqsUpTo(CellPool, MaxCols), 1)}
    \cup {Signature(Some(SignatureBlock(pre, ls))) :
            pre \in {None, Some(<<>>), Some(<<"a">>)},
            ls \in SeqsUpTo({SignatureLine(<<>>), SignatureLine(<<"a">>)}, 1)}

\* one block of each text-bearing kind, for trees that vary in nesting
MixPool ==
    {Paragraph(<<"a">>),
     NumberedList(Some(<<StrItem(<<"a">>), DictItem(TRUE, <<"a">>, 1)>>)),
     Table(Some(TableBlock(<<<<"a">>>>, <<<<StrCell(<<"a">>), TableCell(<<"a">>, 1)>>>>)))}

RECURSIVE SectionSet(_)
SectionSet(d) ==
    {Section("s", MaxDepth + 1 - d, h, bs, subs) :
        h \in HeadingPool,
        bs \in SeqsUpTo(MixPool, MaxBlocks),
        subs \in IF d = 0 THEN {<<>>} ELSE SeqsUpTo(SectionSet(d - 1), 1)}

LastSection == Section("z", 1, <<"a">>, <<Paragraph(<<"a">>)>>, <<>>)

\* one section holding any single block, under any title and heading
TreesWide ==
    {UniversalDocument("icf", t, <<Section("s", 1, h, <<b>>, <<>>)>>) :
        t \in TextPool, h \in HeadingPool, b \in BlockPool}

\* nested sections, one or two at top level
TreesDeep ==
    {UniversalDocument("icf", <<"a">>, secs) :
        secs \in {<<s>> : s \in SectionSet(MaxDepth)}
                 \cup {<<s, LastSection>> : s \in SectionSet(MaxDepth)}}

Trees == TreesWide \cup TreesDeep

(***************************************************************************)
(* State                                                                   *)
(***************************************************************************)
VARIABLES
    p_pc,       \* path round trip: "start", "collected", "applied"
    p_tree,     \* the tree T
    p_items,    \* _collect_text_items(T)
    p_out       \* T after _apply_translations(T, identity map)

pathVars == <<p_pc, p_tree, p_items, p_out>>

VARIABLES
    t_orig,     \* per call: the caller's tree as it was before the call (history)
    t_lang,     \* per call: target_language
    t_store,    \* per call: the objects, [src |-> the caller's tree, copy |-> Optional]
    t_call,     \* per call: the locals of translate_uif and where it stands
    t_task,     \* per call: one record per _translate_batch task
    cache,      \* self.cache
    semaphore   \* self.semaphore: the number of permits left

transVars == <<t_orig, t_lang, t_store, t_call, t_task, cache, semaphore>>

VARIABLES
    engine_doc, \* DocEngine.doc of the engine: None or the output document
    r_pc,       \* where the render operation stands
    r_op,       \* the operation: [kind, validate_first, document]
    r_before,   \* engine_doc as it was when the operation was called (history)
    r_file,     \* the container the operation serialized: None or Some(archive)
    r_verified, \* the archive checks have passed on r_file
    r_out,      \* what was handed to the caller: None or Some(output)
    r_errors,   \* the errors raised by the operations so far (history)
    r_calls     \* number of operations called so far

renderVars == <<engine_doc, r_pc, r_op, r_before, r_file, r_verified, r_out, r_errors, r_calls>>

VARIABLES
    par_engine, \* per engine: [doc, builders], the document self.doc refers to and
                \* the document the builders were constructed on (0: none)
    par_docs,   \* the output documents created so far
    par_thread  \* per render call: [pc, engine, tree, out]

parVars == <<par_engine, par_docs, par_thread>>

VARIABLES
    f_op,       \* the function applied: its name
    f_arg,      \* its arguments
    f_res       \* None, or Some(what it returned)

fnVars == <<f_op, f_arg, f_res>>

vars == <<pathVars, transVars, renderVars, parVars, fnVars>>

outsidePath == <<transVars, renderVars, parVars, fnVars>>
outsideTrans == <<pathVars, renderVars, parVars, fnVars>>
outsideRender == <<pathVars, transVars, parVars, fnVars>>
outsidePar == <<pathVars, transVars, renderVars, fnVars>>
outsideFn == <<pathVars, transVars, renderVars, parVars>>

(***************************************************************************)
(* Path round trip: collect, then apply the identity map                   *)
(***************************************************************************)
TransIdle ==
    /\ t_orig = <<>>
    /\ t_lang = <<>>
    /\ t_store = <<>>
    /\ t_call = <<>>
    /\ t_task = <<>>
    /\ cache = TranslationCache
    /\ semaphore = MAX_CONCURRENT

NoOp == [kind |-> "none", validate_first |-> TRUE, document |-> <<>>]

RenderIdle ==
    /\ engine_doc = None
    /\ r_pc = "idle"
    /\ r_op = NoOp
    /\ r_before = None
    /\ r_file = None
    /\ r_verified = FALSE
    /\ r_out = None
    /\ r_errors = {}
    /\ r_calls = 0

ParIdle ==
    /\ par_engine = <<>>
    /\ par_docs = <<>>
    /\ par_thread = <<>>

FnIdle ==
    /\ f_op = "none"
    /\ f_arg = <<>>
    /\ f_res = <<>>

PathIdle ==
    /\ p_pc = "off"
    /\ p_tree = <<>>
    /\ p_items = <<>>
    /\ p_out = <<>>

PathInit ==
    /\ p_pc = "start"
    /\ p_tree \in Trees
    /\ p_items = <<>>
    /\ p_out = p_tree
    /\ TransIdle
    /\ RenderIdle
    /\ ParIdle
    /\ FnIdle

PathCollect ==
    /\ p_pc = "start"
    /\ p_items' = _collect_text_items(p_tree)
    /\ p_pc' = "collected"
    /\ UNCHANGED <<p_tree, p_out, outsidePath>>

PathApply ==
    /\ p_pc = "collected"
    /\ p_out' = _apply_translations(p_tree, IdentityMap(p_items))
    /\ p_pc' = "applied"
    /\ UNCHANGED <<p_tree, p_items, outsidePath>>

PathNext == PathCollect \/ PathApply

PathSpec == PathInit /\ [][PathNext]_vars

\* C1: collecting the (path, text) pairs of T and applying the identity map
\* {path -> that text} to T yields T again, and the collected paths are
\* pairwise distinct.
RoundTripIdentity ==
    /\ p_pc # "start" => Cardinality(PathsOf(p_items)) = Len(p_items)
    /\ p_pc = "applied" => p_out = p_tree

\* a tree with a string item, a dict item and a table cell object has been
\* collected and patched
RoundTripWitness ==
    /\ p_pc = "applied"
    /\ Len(p_items) >= 6
    /\ \E n \in 1..Len(p_items) : p_items[n].path[Len(p_items[n].path)] = "text"
    /\ \E n \in 1..Len(p_items) :
          \E k \in 1..Len(p_items[n].path) : p_items[n].path[k] = "subsections"

(***************************************************************************)
(* translate_uif: concurrent calls on one ParallelTranslator               *)
(***************************************************************************)
MaxCalls == 2       \* translate_uif calls made on the translator

Calls == 1..MaxCalls
Langs == {"es", "fr"}

\* seven translatable leaves (two batches: five items and two), two of them
\* with the same text, and leaves the extractor skips
TreeLong ==
    UniversalDocument("icf", <<"a">>,
        <<Section("s1", 1, <<"b">>,
            <<Paragraph(<<"a">>),
              BulletList(Some(<<StrItem(<<"c">>), DictItem(TRUE, <<"d">>, 1),
                                StrItem(<<" ">>), DictItem(FALSE, <<>>, 0)>>)),
              Table(Some(TableBlock(<<<<"e">>>>,
                                    <<<<TableCell(<<"f">>, 1), StrCell(<<>>)>>>>)))>>,
            <<Section("s1.1", 2, <<"g">>, <<PageBreak>>, <<>>)>>)>>)

\* two translatable leaves (one batch)
TreeShort ==
    UniversalDocument("icf", <<"a">>,
        <<Section("s1", 1, <<"b">>, <<Paragraph(<<>>)>>, <<>>)>>)

\* one translatable leaf (a batch of one item)
TreeOne == UniversalDocument("icf", <<"a">>, <<>>)

SampleTrees == {TreeLong, TreeShort, TreeOne}

(* the backend: self.openai.generate *)
UpperOf ==
    [c \in {"a", "b", "c", "d", "e", "f", "g"} |->
        CASE c = "a" -> "A" [] c = "b" -> "B" [] c = "c" -> "C" [] c = "d" -> "D"
          [] c = "e" -> "E" [] c = "f" -> "F" [] c = "g" -> "G"]
Translated(t) == [k \in 1..Len(t) |-> IF t[k] \in DOMAIN UpperOf THEN UpperOf[t[k]] ELSE t[k]]

\* a compliant answer: every marker, each followed by the translated text
CompliantAnswer(batch) ==
    JoinLines([i \in 1..Len(batch.items) |->
        Bars \o Decimal(i - 1) \o Bars \o <<" ">> \o Translated(batch.items[i].text)])

\* an answer that stops after the first item
TruncatedAnswer(batch) ==
    Bars \o Decimal(0) \o Bars \o <<" ">> \o Translated(batch.items[1].text)

\* what one call of generate may do: return a text or raise
BackendAnswers(batch) ==
    {[kind |-> "text", text |-> x] :
        x \in {<<>>, <<" ">>, CompliantAnswer(batch), TruncatedAnswer(batch)}}
    \cup {[kind |-> "raise", text |-> <<>>]}

\* history of a task's answers so far: "none", "empty" (only empty or
\* whitespace texts), "raise" (only exceptions), "mixed"
HistAfter(h, r) ==
    LET k == IF r.kind = "raise" THEN "raise"
             ELSE IF ~Truthy(Strip(r.text)) THEN "empty" ELSE "mixed"
    IN  IF h = "none" \/ h = k THEN k ELSE "mixed"

NewTask ==
    [pc |-> "pending", attempt |-> 0, requests |-> 0, delays |-> <<>>, hist |-> "none",
     result |-> [kind |-> "none", value |-> <<>>], rank |-> 0]

IdleCall ==
    [pc |-> "idle", translated_uif |-> "none", text_items |-> <<>>,
     cached_translations |-> <<>>, batches |-> <<>>, cache_at_start |-> <<>>]

TransInit ==
    /\ t_orig \in {f \in [Calls -> SampleTrees] : \A c \in Calls : c > 1 => f[c] = TreeShort}
    /\ t_lang \in {f \in [Calls -> Langs] : f[1] = "es"}
    /\ t_store = [c \in Calls |-> [src |-> t_orig[c], copy |-> None]]
    /\ t_call = [c \in Calls |-> IdleCall]
    /\ t_task = [c \in Calls |-> <<>>]
    /\ cache = TranslationCache
    /\ semaphore = MAX_CONCURRENT
    /\ PathIdle
    /\ RenderIdle
    /\ ParIdle
    /\ FnIdle

\* steps 1-4 of translate_uif, which run without suspension
Prepared(c) ==
    LET cp == DeepCopy(t_store[c])
        text_items == _collect_text_items(Deref(cp.store, cp.ref))
        f == FilterCached(text_items, t_lang[c],
                 [cached_translations |-> <<>>, uncached_items |-> <<>>, cache |-> cache])
    IN  [store |-> cp.store, translated_uif |-> cp.ref, text_items |-> text_items,
         cached_translations |-> f.cached_translations, cache |-> f.cache,
         batches |-> create_batches(f.uncached_items, DEFAULT_MAX_ITEMS, DEFAULT_MAX_CHARS)]

\* translate_uif up to the gather, which runs without suspension: with
\* batches the tasks are created; with none it patches and returns at once
Start(c) ==
    /\ t_call[c].pc = "idle"
    /\ LET pr == Prepared(c)
           started == [pc |-> "gather", translated_uif |-> pr.translated_uif,
                       text_items |-> pr.text_items,
                       cached_translations |-> pr.cached_translations,
                       batches |-> pr.batches, cache_at_start |-> cache._cache]
       IN  /\ cache' = pr.cache
           /\ IF pr.batches # <<>>
              THEN /\ t_store' = [t_store EXCEPT ![c] = pr.store]
                   /\ t_call' = [t_call EXCEPT ![c] = started]
                   /\ t_task' = [t_task EXCEPT ![c] =
                                    [i \in 1..Len(pr.batches) |-> NewTask]]
              ELSE /\ t_store' = [t_store EXCEPT ![c] =
                          WriteObj(pr.store, pr.translated_uif,
                              _apply_translations(Deref(pr.store, pr.translated_uif),
                                                  pr.cached_translations))]
                   /\ t_call' = [t_call EXCEPT ![c] = [started EXCEPT !.pc = "done"]]
                   /\ UNCHANGED t_task
    /\ UNCHANGED <<t_orig, t_lang, semaphore, outsideTrans>>

\* a section that keeps its permit when it is left by an exception
SemaphoreKeptOnRaise(value, out) == IF out.kind = "raise" THEN value ELSE value + 1

\* async with self.semaphore: the permit goes back on every way out
SemaphoreAfterExit(value, out) == value + 1

\* asyncio.Semaphore: acquire succeeds while a permit is left
\* a semaphore that never blocks
AlwaysAcquire(value) == TRUE

CanAcquire(value) == value > 0

\* async with self.semaphore: enter, build the prompt, start the first delay
Acquire(c, i) ==
    /\ t_call[c].pc = "gather"
    /\ t_task[c][i].pc = "pending"
    /\ CanAcquire(semaphore)
    /\ semaphore' = semaphore - 1
    /\ t_task' = [t_task EXCEPT ![c][i].pc = "sleeping"]
    /\ UNCHANGED <<t_orig, t_lang, t_store, t_call, cache, outsideTrans>>

\* asyncio.sleep(delay) is over: the request goes out
SendRequest(c, i) ==
    /\ t_task[c][i].pc = "sleeping"
    /\ t_task' = [t_task EXCEPT ![c][i].pc = "awaiting",
                                ![c][i].delays = Append(@, Delay(t_task[c][i].attempt)),
                                ![c][i].requests = @ + 1]
    /\ UNCHANGED <<t_orig, t_lang, t_store, t_call, cache, semaphore, outsideTrans>>

\* the tasks of a call that have finished; a task's rank is its place in
\* the order of completion
Finished(tasks) == Cardinality({j \in 1..Len(tasks) : tasks[j].pc = "done"})

\* generate returned or raised: retry, or leave the section with the result
Answer(c, i) ==
    /\ t_task[c][i].pc = "awaiting"
    /\ \E r \in BackendAnswers(t_call[c].batches[i]) :
        LET out == AttemptOutcome(t_call[c].batches[i], t_task[c][i].attempt, r)
            h == HistAfter(t_task[c][i].hist, r)
        IN  \/ /\ out.kind = "continue"
               /\ t_task' = [t_task EXCEPT ![c][i].pc = "sleeping",
                                           ![c][i].attempt = @ + 1,
                                           ![c][i].hist = h]
               /\ UNCHANGED semaphore
            \/ /\ out.kind # "continue"
               /\ t_task' = [t_task EXCEPT ![c][i].pc = "done",
                                           ![c][i].hist = h,
                                           ![c][i].result = out,
                                           ![c][i].rank = Finished(t_task[c]) + 1]
               /\ semaphore' = SemaphoreAfterExit(semaphore, out)
    /\ UNCHANGED <<t_orig, t_lang, t_store, t_call, cache, outsideTrans>>

AllDone(c) == \A i \in 1..Len(t_task[c]) : t_task[c][i].pc = "done"

\* the list asyncio.gather returns
\* results listed in the order the tasks completed
ResultsAsCompleted(tasks) ==
    [k \in 1..Len(tasks) |-> tasks[CHOOSE i \in 1..Len(tasks) : tasks[i].rank = k].result]

\* results listed in the order of the awaitables passed in
GatherResults(tasks) == [i \in 1..Len(tasks) |-> tasks[i].result]

\* the gather is over: the result loop, the patch and the return (a gather
\* without return_exceptions would re-raise a task's exception instead)
Finish(c) ==
    /\ t_call[c].pc = "gather"
    /\ AllDone(c)
    /\ IF ReturnExceptions \/ \A i \in 1..Len(t_task[c]) : t_task[c][i].result.kind # "raise"
       THEN LET pr == ProcessResults(t_call[c].batches,
                          GatherResults(t_task[c]),
                          t_lang[c], t_call[c].cached_translations, cache)
                ref == t_call[c].translated_uif
            IN  /\ t_store' = [t_store EXCEPT ![c] =
                       WriteObj(@, ref,
                           _apply_translations(Deref(@, ref), pr.cached_translations))]
                /\ cache' = pr.cache
                /\ t_call' = [t_call EXCEPT ![c].pc = "done"]
       ELSE /\ t_call' = [t_call EXCEPT ![c].pc = "raised"]
            /\ UNCHANGED <<t_store, cache>>
    /\ UNCHANGED <<t_orig, t_lang, t_task, semaphore, outsideTrans>>

TransNext ==
    \E c \in Calls :
        \/ Start(c)
        \/ Finish(c)
        \/ \E i \in 1..Len(t_task[c]) : Acquire(c, i) \/ SendRequest(c, i) \/ Answer(c, i)

TransSpec == TransInit /\ [][TransNext]_vars

(***************************************************************************)
(* Reading a tree for the properties below: every text position of a tree  *)
(* with its path (empty and skipped texts included), and the tree with all *)
(* of its texts blanked                                                    *)
(***************************************************************************)
BlockLeaves(block, bp) ==
    <<TextItem(bp \o <<"content">>, block.content)>>
    \o (IF IsSome(block.items)
        THEN ConcatAll([k \in 1..Len(block.items[1]) |->
                 LET it == block.items[1][k]
                     ip == Idx(bp \o <<"items">>, k - 1)
                 IN  IF it.kind = "str" THEN <<TextItem(ip, it.text)>>
                     ELSE IF it.has_text THEN <<TextItem(ip \o <<"text">>, it.text)>>
                     ELSE <<>>])
        ELSE <<>>)
    \o (IF IsSome(block.table)
        THEN LET tb == block.table[1]
             IN  [k \in 1..Len(tb.headers) |->
                     TextItem(Idx(bp \o <<"table", "headers">>, k - 1), tb.headers[k])]
                 \o ConcatAll([r \in 1..Len(tb.rows) |->
                        [c \in 1..Len(tb.rows[r]) |->
                            LET cp == Idx(Idx(bp \o <<"table", "rows">>, r - 1), c - 1)
                            IN  IF tb.rows[r][c].kind = "str"
                                THEN TextItem(cp, tb.rows[r][c].content)
                                ELSE TextItem(cp \o <<"content">>, tb.rows[r][c].content)]])
        ELSE <<>>)
    \o (IF IsSome(block.signature)
        THEN LET sg == block.signature[1]
             IN  (IF IsSome(sg.preamble)
                  THEN <<TextItem(bp \o <<"signature", "preamble">>, sg.preamble[1])>>
                  ELSE <<>>)
                 \o [l \in 1..Len(sg.lines) |->
                        TextItem(Idx(bp \o <<"signature", "lines">>, l - 1) \o <<"label">>,
                                 sg.lines[l].label)]
        ELSE <<>>)

RECURSIVE SectionLeaves(_, _)
SectionLeaves(sections, base) ==
    ConcatAll([i \in 1..Len(sections) |->
        LET sp == Idx(base, i - 1)
        IN  <<TextItem(sp \o <<"heading">>, sections[i].heading)>>
            \o ConcatAll([j \in 1..Len(sections[i].content_blocks) |->
                   BlockLeaves(sections[i].content_blocks[j], Idx(sp \o <<"blocks">>, j - 1))])
            \o SectionLeaves(sections[i].subsections, sp \o <<"subsections">>)])

LeafList(tree) ==
    <<TextItem(<<"title">>, tree.title)>> \o SectionLeaves(tree.sections, <<"sections">>)

\* path -> text, for every text position of the tree
Leaves(tree) ==
    LET l == LeafList(tree)
    IN  [p \in PathsOf(l) |-> l[CHOOSE n \in 1..Len(l) : l[n].path = p].text]

BlankBlock(block) ==
    [block EXCEPT
        !.content = <<>>,
        !.items = IF IsSome(@)
                  THEN Some([k \in 1..Len(@[1]) |-> [@[1][k] EXCEPT !.text = <<>>]])
                  ELSE @,
        !.table = IF IsSome(@)
                  THEN Some([@[1] EXCEPT
                           !.headers = [k \in 1..Len(@) |-> <<>>],
                           !.rows = [r \in 1..Len(@) |->
                                        [c \in 1..Len(@[r]) |->
                                            [@[r][c] EXCEPT !.content = <<>>]]]])
                  ELSE @,
        !.signature = IF IsSome(@)
                      THEN Some([@[1] EXCEPT
                               !.preamble = IF IsSome(@) THEN Some(<<>>) ELSE @,
                               !.lines = [l \in 1..Len(@) |-> [@[l] EXCEPT !.label = <<>>]]])
                      ELSE @]

RECURSIVE BlankSections(_)
BlankSections(sections) ==
    [i \in 1..Len(sections) |->
        [sections[i] EXCEPT
            !.heading = <<>>,
            !.content_blocks = [j \in 1..Len(@) |-> BlankBlock(@[j])],
            !.subsections = BlankSections(@)]]

\* everything of a tree but its texts
Skeleton(tree) == [tree EXCEPT !.title = <<>>, !.sections = BlankSections(@)]

(***************************************************************************)
(* Properties of translate_uif                                             *)
(***************************************************************************)
Returned(c) == Deref(t_store[c], t_call[c].translated_uif)
CollectedPaths(c) == PathsOf(_collect_text_items(t_orig[c]))
TaskIds(c) == 1..Len(t_task[c])
Items(c, i) == t_call[c].batches[i].items
TotalRequests(c) ==
    LET RECURSIVE Sum(_)
        Sum(i) == IF i = 0 THEN 0 ELSE t_task[c][i].requests + Sum(i - 1)
    IN  Sum(Len(t_task[c]))

\* C2: the tree translate_uif returns differs from the source only in the
\* texts at the paths the extractor collected: everything that is not a text
\* (structure, order, types, levels, ids, layout fields) and every text the
\* extractor skipped are as in the source.
TranslationFrame ==
    \A c \in Calls :
        t_call[c].pc = "done" =>
            LET source == Leaves(t_orig[c])
                returned == Leaves(Returned(c))
            IN  /\ Skeleton(Returned(c)) = Skeleton(t_orig[c])
                /\ \A p \in DOMAIN source \ CollectedPaths(c) : returned[p] = source[p]

\* a call returned a tree in which a dict item and a table cell object were
\* translated while the whitespace item was left alone
TranslationFrameWitness ==
    \E c \in Calls :
        /\ t_call[c].pc = "done"
        /\ t_orig[c] = TreeLong
        /\ \A i \in TaskIds(c) : t_task[c][i].hist = "mixed" /\ t_task[c][i].attempt = 0
        /\ \A p \in CollectedPaths(c) : Leaves(Returned(c))[p] # Leaves(t_orig[c])[p]

\* C3: translate_uif never changes the tree it was given, at any moment of
\* the call and whatever the backend answered.
SourceUntouched == \A c \in Calls : t_store[c].src = t_orig[c]

\* a call has returned a tree that differs from its source
SourceUntouchedWitness ==
    \E c \in Calls : t_call[c].pc = "done" /\ Returned(c) # t_orig[c]

\* C4: when every answer of the backend for a batch was empty or whitespace,
\* the call does not raise and returns a tree in which every leaf of that
\* batch has its original text.
EmptyAnswersPassThrough ==
    \A c \in Calls :
        \A i \in TaskIds(c) :
            (t_task[c][i].pc = "done" /\ t_task[c][i].hist = "empty") =>
                /\ t_call[c].pc # "raised"
                /\ t_call[c].pc = "done" =>
                       \A n \in 1..Len(Items(c, i)) :
                           Leaves(Returned(c))[Items(c, i)[n].path] = Items(c, i)[n].text

\* a call returned with one batch answered by empty texts only (four
\* requests) and another batch translated
EmptyAnswersWitness ==
    \E c \in Calls :
        /\ t_call[c].pc = "done"
        /\ \E i \in TaskIds(c) : t_task[c][i].hist = "empty" /\ t_task[c][i].requests = max_retries
        /\ \E i \in TaskIds(c) :
               t_task[c][i].hist = "mixed"
               /\ \A n \in 1..Len(Items(c, i)) :
                      Leaves(Returned(c))[Items(c, i)[n].path] # Items(c, i)[n].text

\* C5: a batch that exhausted its retries (only exceptions, or only empty
\* answers) degrades its own items to their original text and nothing else:
\* the call does not raise, every batch was run, and every item of a batch
\* that returned a list has the translation of that list (the original text
\* where the list has an empty entry).
Exhausted(c, i) == t_task[c][i].pc = "done" /\ t_task[c][i].hist \in {"empty", "raise"}

BatchFailureIsolated ==
    \A c \in Calls :
        /\ t_call[c].pc # "raised"
        /\ t_call[c].pc = "done" =>
            LET returned == Leaves(Returned(c))
            IN  \A i \in TaskIds(c) :
                /\ t_task[c][i].requests >= 1
                /\ t_task[c][i].result.kind \in {"return", "raise"}
                /\ Exhausted(c, i) =>
                       \A n \in 1..Len(Items(c, i)) :
                           returned[Items(c, i)[n].path] = Items(c, i)[n].text
                /\ t_task[c][i].result.kind = "return" =>
                       \A n \in 1..Len(Items(c, i)) :
                           returned[Items(c, i)[n].path] =
                               IF Truthy(t_task[c][i].result.value[n])
                               THEN t_task[c][i].result.value[n]
                               ELSE Items(c, i)[n].text

\* a call returned although one batch raised on all four attempts, and its
\* sibling batch has its translations
BatchFailureWitness ==
    \E c \in Calls :
        /\ t_call[c].pc = "done"
        /\ \E i \in TaskIds(c) :
               /\ t_task[c][i].hist = "raise"
               /\ t_task[c][i].result.kind = "raise"
               /\ t_task[c][i].requests = max_retries
        /\ \E i \in TaskIds(c) :
               /\ t_task[c][i].result.kind = "return"
               /\ \A n \in 1..Len(Items(c, i)) :
                      /\ Truthy(t_task[c][i].result.value[n])
                      /\ Leaves(Returned(c))[Items(c, i)[n].path] = Translated(Items(c, i)[n].text)

\* C6: an item whose (text, language) was in the cache when the call started
\* is in no batch; when every collected text was cached the call makes no
\* backend request and every collected leaf has its cached translation.
InCacheAtStart(c, text) == _make_key(text, t_lang[c]) \in DOMAIN t_call[c].cache_at_start

CachedItemsNeverBatched ==
    \A c \in Calls :
        t_call[c].pc # "idle" =>
            /\ \A i \in 1..Len(t_call[c].batches) :
                   \A n \in 1..Len(Items(c, i)) : ~InCacheAtStart(c, Items(c, i)[n].text)
            /\ (\A n \in 1..Len(t_call[c].text_items) :
                    InCacheAtStart(c, t_call[c].text_items[n].text)) =>
                   /\ TotalRequests(c) = 0
                   /\ t_call[c].pc = "done"
                   /\ \A n \in 1..Len(t_call[c].text_items) :
                          Leaves(Returned(c))[t_call[c].text_items[n].path] =
                              t_call[c].cache_at_start[
                                  _make_key(t_call[c].text_items[n].text, t_lang[c])]

\* a call found all of its texts in the cache, made no request and returned
\* the cached translations
CachedItemsWitness ==
    \E c \in Calls :
        /\ t_call[c].pc = "done"
        /\ Len(t_call[c].text_items) = 2
        /\ t_call[c].batches = <<>>
        /\ \A n \in 1..Len(t_call[c].text_items) :
               /\ InCacheAtStart(c, t_call[c].text_items[n].text)
               /\ Leaves(Returned(c))[t_call[c].text_items[n].path] =
                      Translated(t_call[c].text_items[n].text)

\* C7: at most MAX_CONCURRENT batch tasks of the translator are inside the
\* semaphore (in their delay, awaiting the backend or handling its answer),
\* over all batches of all concurrent calls.
InSection ==
    UNION {{<<c, i>> : i \in {j \in TaskIds(c) : t_task[c][j].pc \in {"sleeping", "awaiting"}}} :
              c \in Calls}

ConcurrencyBounded == Cardinality(InSection) <= MAX_CONCURRENT

\* one task holds the semaphore while a task of the same call and a task of
\* another call wait for it
ConcurrencyWitness ==
    \E c1 \in Calls, c2 \in Calls :
        /\ c1 # c2
        /\ \E i \in TaskIds(c1) : t_task[c1][i].pc = "awaiting"
        /\ \E i \in TaskIds(c1) : t_task[c1][i].pc = "pending"
        /\ \E i \in TaskIds(c2) : t_task[c2][i].pc = "pending"

(***************************************************************************)
(* Render operations on one DocEngine, one after the other                 *)
(***************************************************************************)
MaxRenders == 2     \* operations called on the engine

TreeNoTitle ==
    UniversalDocument("icf", <<>>,
        <<Section("s1", 1, <<"b">>, <<Heading(<<"c">>, None), Table(None)>>,
            <<Section("s1.1", 1, <<>>, <<>>, <<>>)>>)>>)

RenderTrees == {TreeShort, TreeLong, TreeOne, TreeNoTitle}
RenderKinds == {"render", "render_to_bytes", "render_and_upload"}

RenderInit ==
    /\ RenderIdle
    /\ PathIdle
    /\ TransIdle
    /\ ParIdle
    /\ FnIdle

Fail(type, stage) ==
    /\ r_pc' = "Error"
    /\ r_errors' = r_errors \cup {Raised(type, stage)}

\* render / render_to_bytes / render_and_upload is called
RenderCall ==
    /\ r_pc \in {"idle", "Done", "Error"}
    /\ r_calls < MaxRenders
    /\ \E k \in RenderKinds, vf \in BOOLEAN, d \in RenderTrees :
           r_op' = [kind |-> k, validate_first |-> vf, document |-> d]
    /\ r_pc' = "Validating"
    /\ r_before' = engine_doc
    /\ r_file' = None
    /\ r_verified' = FALSE
    /\ r_out' = None
    /\ r_calls' = r_calls + 1
    /\ UNCHANGED <<engine_doc, r_errors, outsideRender>>

RenderValidate ==
    /\ r_pc = "Validating"
    /\ IF ValidationFails(r_op.validate_first, r_op.document)
       THEN Fail("ValueError", "validation")
       ELSE r_pc' = "Styling" /\ UNCHANGED r_errors
    /\ UNCHANGED <<engine_doc, r_op, r_before, r_file, r_verified, r_out, r_calls,
                   outsideRender>>

RenderStyle ==
    /\ r_pc = "Styling"
    /\ engine_doc' = Some(_apply_styling(_init_document(r_calls)[1], r_op.document))
    /\ r_pc' = "RenderingTitle"
    /\ UNCHANGED <<r_op, r_before, r_file, r_verified, r_out, r_errors, r_calls,
                   outsideRender>>

RenderTitle ==
    /\ r_pc = "RenderingTitle"
    /\ engine_doc' = Some(_render_title(engine_doc[1], r_op.document))
    /\ r_pc' = "RenderingSections"
    /\ UNCHANGED <<r_op, r_before, r_file, r_verified, r_out, r_errors, r_calls,
                   outsideRender>>

RenderSections ==
    /\ r_pc = "RenderingSections"
    /\ engine_doc' = Some(_render_sections(engine_doc[1], r_op.document))
    /\ r_pc' = "Serializing"
    /\ UNCHANGED <<r_op, r_before, r_file, r_verified, r_out, r_errors, r_calls,
                   outsideRender>>

\* render: self.doc.save(str(output_path)) writes the file, or fails
SaveToFile ==
    /\ r_pc = "Serializing"
    /\ r_op.kind \in {"render", "render_and_upload"}
    /\ \/ /\ \E a \in Archives : r_file' = Some(a)
          /\ r_pc' = "Verifying"
          /\ UNCHANGED r_errors
       \/ /\ Fail("OSError", "write")
          /\ UNCHANGED r_file
    /\ UNCHANGED <<engine_doc, r_op, r_before, r_verified, r_out, r_calls,
                   outsideRender>>

\* render_to_bytes: self.doc.save(buffer); return buffer.read()
SaveToBuffer ==
    /\ r_pc = "Serializing"
    /\ r_op.kind = "render_to_bytes"
    /\ \E a \in Archives :
           /\ a.readable
           /\ r_file' = Some(a)
           /\ r_out' = Some([kind |-> "bytes", archive |-> a])
    /\ r_pc' = "Done"
    /\ UNCHANGED <<engine_doc, r_op, r_before, r_verified, r_errors, r_calls,
                   outsideRender>>

\* render: the ZIP validation, then return output_path
RenderVerify ==
    /\ r_pc = "Verifying"
    /\ LET v == VerifyArchive(r_file[1])
       IN  IF v # "ok"
           THEN /\ Fail(v, "verification")
                /\ UNCHANGED <<r_verified, r_out>>
           ELSE /\ r_verified' = TRUE
                /\ UNCHANGED r_errors
                /\ IF r_op.kind = "render"
                   THEN /\ r_pc' = "Done"
                        /\ r_out' = Some([kind |-> "path", archive |-> r_file[1]])
                   ELSE /\ r_pc' = "Uploading"
                        /\ UNCHANGED r_out
    /\ UNCHANGED <<engine_doc, r_op, r_before, r_file, r_calls, outsideRender>>

\* render_and_upload: read the file, upload it, return the result
RenderUpload ==
    /\ r_pc = "Uploading"
    /\ \/ /\ r_pc' = "Done"
          /\ r_out' = Some([kind |-> "upload", archive |-> r_file[1]])
          /\ UNCHANGED r_errors
       \/ /\ Fail("Exception", "upload")
          /\ UNCHANGED r_out
    /\ UNCHANGED <<engine_doc, r_op, r_before, r_file, r_verified, r_calls,
                   outsideRender>>

RenderNext ==
    \/ RenderCall
    \/ RenderValidate
    \/ RenderStyle
    \/ RenderTitle
    \/ RenderSections
    \/ SaveToFile
    \/ SaveToBuffer
    \/ RenderVerify
    \/ RenderUpload

RenderSpec == RenderInit /\ [][RenderNext]_vars

\* C8: every public render operation hands output to its caller only after
\* the serialized container has passed the archive checks (it opens as an
\* archive, has no corrupt entry and holds both mandatory parts).
OutputOnlyAfterVerification ==
    IsSome(r_out) => r_verified /\ VerifyArchive(r_out[1].archive) = "ok"

\* C9: with validate_first, an operation on a tree that fails validation
\* never gets past Validating: it initialises no output document, renders
\* nothing and writes nothing; it ends in the error.
InvalidTreeStopsAtValidation ==
    (r_pc # "idle" /\ r_op.validate_first /\ ~validate(r_op.document).ok) =>
        /\ r_pc \in {"Validating", "Error"}
        /\ engine_doc = r_before
        /\ r_file = None
        /\ r_out = None

\* an invalid tree was rendered with validation bypassed, and the next
\* operation on the same tree, with validation, raised and left the engine's
\* document as it was
InvalidTreeWitness ==
    /\ r_pc = "Error"
    /\ r_op.validate_first
    /\ r_op.document = TreeNoTitle
    /\ Raised("ValueError", "validation") \in r_errors
    /\ IsSome(engine_doc)
    /\ engine_doc = r_before
    /\ engine_doc[1].body = _render_sections(_init_document(1)[1], TreeNoTitle).body

\* C10: the error raised for a failed archive verification differs in type
\* from the error raised for a failed validation and from the error raised
\* for a failed write.
VerificationErrorDistinct ==
    \A e1 \in r_errors, e2 \in r_errors :
        (e1.stage = "verification" /\ e2.stage \in {"validation", "write"}) =>
            e1.type # e2.type

(***************************************************************************)
(* Render calls that run side by side                                      *)
(* render is a plain method and the engine keeps the output document and   *)
(* the builders in its fields; the steps of two calls interleave.          *)
(***************************************************************************)
MaxThreads == 2     \* render calls running side by side

Threads == 1..MaxThreads
Engines == 1..MaxThreads
ParTrees == {TreeShort, TreeLong, TreeNoTitle}

NoEngine == [doc |-> 0, builders |-> 0]

ParInit ==
    /\ par_engine = [e \in Engines |-> NoEngine]
    /\ par_docs = <<>>
    /\ par_thread \in [Threads -> [pc : {"Init"}, engine : Engines,
                                   tree : ParTrees, out : {None}]]
    /\ par_thread[1].engine = 1     \* doc_engine; the others share it or own one
    /\ PathIdle
    /\ TransIdle
    /\ RenderIdle
    /\ FnIdle

\* self._init_document(): a fresh document, and builders constructed on it
ParInitDocument(p) ==
    LET e == par_thread[p].engine
        d == Len(par_docs) + 1
    IN  /\ par_thread[p].pc = "Init"
        /\ par_docs' = Append(par_docs, _init_document(d)[1])
        /\ par_engine' = [par_engine EXCEPT ![e] = [doc |-> d, builders |-> d]]
        /\ par_thread' = [par_thread EXCEPT ![p].pc = "Styling"]
        /\ UNCHANGED outsidePar

\* self._apply_styling(document), through self.style_engine
ParStyle(p) ==
    LET d == par_engine[par_thread[p].engine].builders
    IN  /\ par_thread[p].pc = "Styling"
        /\ par_docs' = [par_docs EXCEPT ![d] = _apply_styling(@, par_thread[p].tree)]
        /\ par_thread' = [par_thread EXCEPT ![p].pc = "Title"]
        /\ UNCHANGED <<par_engine, outsidePar>>

\* self._render_title(document.title), through self.doc
ParTitle(p) ==
    LET d == par_engine[par_thread[p].engine].doc
    IN  /\ par_thread[p].pc = "Title"
        /\ par_docs' = [par_docs EXCEPT ![d] = _render_title(@, par_thread[p].tree)]
        /\ par_thread' = [par_thread EXCEPT ![p].pc = "Sections"]
        /\ UNCHANGED <<par_engine, outsidePar>>

\* for section in document.sections: self._render_section(section),
\* through the builders
ParSections(p) ==
    LET d == par_engine[par_thread[p].engine].builders
    IN  /\ par_thread[p].pc = "Sections"
        /\ par_docs' = [par_docs EXCEPT ![d] = _render_sections(@, par_thread[p].tree)]
        /\ par_thread' = [par_thread EXCEPT ![p].pc = "Saving"]
        /\ UNCHANGED <<par_engine, outsidePar>>

\* self.doc.save(...): the output is the document self.doc refers to now
ParSave(p) ==
    LET d == par_engine[par_thread[p].engine].doc
    IN  /\ par_thread[p].pc = "Saving"
        /\ par_thread' = [par_thread EXCEPT ![p].pc = "Done",
                                            ![p].out = Some(par_docs[d])]
        /\ UNCHANGED <<par_engine, par_docs, outsidePar>>

ParNext ==
    \E p \in Threads :
        \/ ParInitDocument(p)
        \/ ParStyle(p)
        \/ ParTitle(p)
        \/ ParSections(p)
        \/ ParSave(p)

ParSpec == ParInit /\ [][ParNext]_vars

\* what rendering the tree alone puts into the output document
AloneBody(tree) ==
    _render_sections(_render_title(_apply_styling(_init_document(1)[1], tree), tree), tree).body

\* C11: render calls whose steps interleave, on engines of their own or on
\* the shared engine, each produce the output that rendering their own tree
\* alone produces: styled, and holding exactly their own content.
RendersIndependent ==
    \A p \in Threads :
        par_thread # <<>> /\ par_thread[p].pc = "Done" =>
            /\ par_thread[p].out[1].styled
            /\ par_thread[p].out[1].body = AloneBody(par_thread[p].tree)

(***************************************************************************)
(* The batch protocol applied to bounded inputs                            *)
(***************************************************************************)
MaxBatchItems == 4      \* items handed to create_batches
MaxMaxItems == 3        \* largest max_items tried
MaxProtocolItems == 3   \* items of a batch sent through the protocol

\* texts of 0..3 and of 11 characters, and limits around the totals they reach
LongText == [i \in 1..11 |-> "x"]
SizedTexts == {<<>>, <<"a">>, <<"a", "b">>, <<"a", "b", "c">>, LongText}
CharLimits == {0, 10, 11, 12, 20, 22, 24, 33, 1000}

\* texts with and without the shapes the parser reacts to
MarkerText == Bars \o <<"1">> \o Bars \o <<"b">>
WrapperText == <<"T", "r", "a", "n", "s", "l", "a", "t", "i", "o", "n", ":", " ", "a">>
NoteText == <<"a", " ", "(", "N", "o", "t", "e", ":", " ", "b", ")">>
ProtocolTexts ==
    {<<>>, <<"a">>, <<"a", " ", "b">>, <<" ", "a">>, <<"a", "\n">>,
     <<"|", "|", "|">>, MarkerText, WrapperText, NoteText}

MaxPieces == 4          \* pieces a backend response is put together from
MaxExpected == 3        \* largest expected_count tried

Marker(i) == Bars \o Decimal(i) \o Bars
ResponsePieces ==
    {Marker(0), Marker(1), Marker(2), <<" ", "a">>, <<"b", " ">>,
     <<"T", "r", "a", "n", "s", "l", "a", "t", "i", "o", "n", ":", " ">>}

ItemsOf(texts) == [k \in 1..Len(texts) |-> TextItem(<<"p", ToString(k - 1)>>, texts[k])]
TextsOf(items) == [k \in 1..Len(items) |-> items[k].text]

BatchInit ==
    /\ \/ /\ f_op = "create_batches"
          /\ \E texts \in SeqsUpTo(SizedTexts, MaxBatchItems),
                mi \in 1..MaxMaxItems, mc \in CharLimits :
                 f_arg = [items |-> ItemsOf(texts), max_items |-> mi, max_chars |-> mc]
       \/ /\ f_op = "to_batched_text"
          /\ \E texts \in SeqsUpTo(ProtocolTexts, MaxProtocolItems) :
                 /\ texts # <<>>
                 /\ f_arg = [batch |-> TranslationBatch(ItemsOf(texts))]
       \/ /\ f_op = "response"
          /\ \E pieces \in SeqsUpTo(ResponsePieces, MaxPieces), n \in 1..MaxExpected :
                 f_arg = [response |-> ConcatAll(pieces), expected_count |-> n]
    /\ f_res = None
    /\ PathIdle
    /\ TransIdle
    /\ RenderIdle
    /\ ParIdle

ApplyCreateBatches ==
    /\ f_op = "create_batches"
    /\ f_res = None
    /\ f_res' = Some(create_batches(f_arg.items, f_arg.max_items, f_arg.max_chars))
    /\ UNCHANGED <<f_op, f_arg, outsideFn>>

ApplyToBatchedText ==
    /\ f_op = "to_batched_text"
    /\ f_res = None
    /\ f_res' = Some(to_batched_text(f_arg.batch))
    /\ UNCHANGED <<f_op, f_arg, outsideFn>>

\* the batched text comes back as the response
ApplyParseResponse ==
    /\ f_op = "to_batched_text"
    /\ f_res # None
    /\ f_op' = "parse_response"
    /\ f_res' = Some(parse_response(f_res[1], Len(f_arg.batch.items)))
    /\ UNCHANGED <<f_arg, outsideFn>>

\* parse_response on a response of the backend
ApplyParseDirect ==
    /\ f_op = "response"
    /\ f_res = None
    /\ f_res' = Some(parse_response(f_arg.response, f_arg.expected_count))
    /\ UNCHANGED <<f_op, f_arg, outsideFn>>

BatchNext ==
    \/ ApplyCreateBatches
    \/ ApplyToBatchedText
    \/ ApplyParseResponse
    \/ ApplyParseDirect

BatchSpec == BatchInit /\ [][BatchNext]_vars

RECURSIVE BatchChars(_)
BatchChars(items) ==
    IF items = <<>> THEN 0 ELSE Len(Head(items).text) + 10 + BatchChars(Tail(items))

CreatedBatches == f_op = "create_batches" /\ f_res # None

\* C12: create_batches (max_items >= 1) produces no batch of more than
\* max_items items and no batch whose character total (text lengths plus 10
\* per item) exceeds max_chars, except a batch of one item.
BatchesWithinLimits ==
    CreatedBatches =>
        \A b \in 1..Len(f_res[1]) :
            /\ Len(f_res[1][b].items) <= f_arg.max_items
            /\ \/ BatchChars(f_res[1][b].items) <= f_arg.max_chars
               \/ Len(f_res[1][b].items) = 1

\* a full batch, a batch closed by the character limit, and an item that
\* alone exceeds the limit
BatchesWithinLimitsWitness ==
    /\ CreatedBatches
    /\ f_arg.max_items = 2
    /\ f_arg.max_chars = 20
    /\ Len(f_res[1]) = 3
    /\ \E b \in 1..3 : Len(f_res[1][b].items) = 2
    /\ \E b \in 1..3 : BatchChars(f_res[1][b].items) > 20
    /\ \E b \in 1..3 : Len(f_res[1][b].items) = 1 /\ BatchChars(f_res[1][b].items) <= 20

Parsed == f_op = "parse_response"

\* C13 as stated: for every non-empty batch and every item text,
\* parse_response(to_batched_text(batch), number of items) is the list of the
\* original item texts.
RoundTripExact ==
    Parsed => f_res[1] = TextsOf(f_arg.batch.items)

\* a text the protocol carries unchanged: trimmed, holding no marker, and
\* left alone by clean_translation
Carried(text) ==
    /\ Strip(text) = text
    /\ FindMarkers(text, 1) = <<>>
    /\ clean_translation(text) = text

\* C13 amended: the round trip returns the original texts when every item
\* text is trimmed, holds no marker and is one clean_translation leaves alone.
RoundTripOfCarriedTexts ==
    (Parsed /\ \A k \in 1..Len(f_arg.batch.items) : Carried(f_arg.batch.items[k].text)) =>
        f_res[1] = TextsOf(f_arg.batch.items)

RoundTripOfCarriedWitness ==
    /\ Parsed
    /\ Len(f_arg.batch.items) = 3
    /\ TextsOf(f_arg.batch.items) = <<<<"a", " ", "b">>, <<"|", "|", "|">>, <<"a">>>>
    /\ f_res[1] = TextsOf(f_arg.batch.items)

ParsedDirect == f_op = "response" /\ f_res # None

\* the text between match m and the next match, or the end of the response
SegmentAfter(response, matches, m) ==
    SubSeq(response, matches[m].end,
           IF m + 1 <= Len(matches) THEN matches[m + 1].start - 1 ELSE Len(response))

\* C14 as stated: parse_response returns exactly n strings; entry i is the
\* trimmed text that follows marker i up to the next marker or the end when
\* marker i occurs and the empty string when it does not; only a response
\* with no marker at all and n = 1 gives the whole response as entry 0.
ParseAsStated ==
    ParsedDirect =>
        LET response == f_arg.response
            n == f_arg.expected_count
            matches == FindMarkers(response, 1)
        IN  /\ Len(f_res[1]) = n
            /\ IF matches = <<>> /\ n = 1
               THEN f_res[1][1] \in {response, Strip(response)}
               ELSE \A i \in 1..n :
                        IF \E m \in 1..Len(matches) : matches[m].idx = i - 1
                        THEN \E m \in 1..Len(matches) :
                                 /\ matches[m].idx = i - 1
                                 /\ f_res[1][i] = Strip(SegmentAfter(response, matches, m))
                        ELSE f_res[1][i] = <<>>

\* C14 amended: parse_response returns exactly n strings. When a marker
\* occurs, entry i is clean_translation of the trimmed text that follows the
\* last occurrence of marker i, and the empty string when marker i does not
\* occur. When no marker occurs, entry 0 is the whole response, cleaned by
\* clean_translation for n = 1 and trimmed for n > 1, and the other entries
\* are empty.
ParseSemantics ==
    ParsedDirect =>
        LET response == f_arg.response
            n == f_arg.expected_count
            matches == FindMarkers(response, 1)
            res == f_res[1]
        IN  /\ Len(res) = n
            /\ matches = <<>> =>
                   /\ res[1] = IF n = 1 THEN clean_translation(response) ELSE Strip(response)
                   /\ \A i \in 2..n : res[i] = <<>>
            /\ matches # <<>> =>
                   \A i \in 1..n :
                       /\ (\A m \in 1..Len(matches) : matches[m].idx # i - 1) => res[i] = <<>>
                       /\ \A m \in 1..Len(matches) :
                              (/\ matches[m].idx = i - 1
                               /\ \A m2 \in m + 1..Len(matches) : matches[m2].idx # i - 1)
                              => res[i] = clean_translation(Strip(SegmentAfter(response, matches, m)))

\* a response that repeats marker 0, skips marker 1 and wraps an answer
ParseSemanticsWitness ==
    /\ ParsedDirect
    /\ f_arg.expected_count = 3
    /\ f_arg.response = Marker(0) \o <<" ", "a">> \o Marker(0) \o <<"b", " ">>
    /\ f_res[1] = <<<<"b">>, <<>>, <<>>>>

(***************************************************************************)
(* validate applied to bounded trees, sound and unsound                    *)
(***************************************************************************)
MaxVBlocks == 1     \* content blocks per section of a validated tree

VBlockPool ==
    {Paragraph(<<"a">>),
     Heading(<<"a">>, None), Heading(<<"a">>, Some(0)), Heading(<<"a">>, Some(4)),
     Heading(<<"a">>, Some(5)),
     Table(None), Table(Some(TableBlock(<<>>, <<>>))), Table(Some(TableBlock(<<<<"h">>>>, <<>>))),
     BulletList(None), NumberedList(Some(<<>>)), BulletList(Some(<<StrItem(<<"a">>)>>)),
     Signature(None), Signature(Some(SignatureBlock(None, <<>>)))}

VSubsections ==
    {<<>>}
    \cup {<<Section(i, lvl, <<"h">>, bs, <<>>)>> :
              i \in {"", "s"}, lvl \in {1, 2},
              bs \in {<<>>, <<Heading(<<"a">>, Some(5))>>, <<Table(None)>>}}

VSections ==
    {Section(i, lvl, h, bs, subs) :
         i \in {"", "s"}, lvl \in {0, 1, 5}, h \in {<<>>, <<"h">>},
         bs \in SeqsUpTo(VBlockPool, MaxVBlocks), subs \in VSubsections}

VSecondSections ==
    {<<>>,
     <<Section("t", 1, <<"h">>, <<>>, <<>>)>>,
     <<Section("", 9, <<>>, <<BulletList(None)>>, <<>>)>>}

VTrees ==
    {UniversalDocument(dt, t, <<first>> \o second) :
         dt \in {"icf", "xyz"}, t \in {<<>>, <<"a">>},
         first \in VSections, second \in VSecondSections}

ValidateInit ==
    /\ f_op = "validate"
    /\ \E d \in VTrees : f_arg = [document |-> d]
    /\ f_res = None
    /\ PathIdle
    /\ TransIdle
    /\ RenderIdle
    /\ ParIdle

ApplyValidate ==
    /\ f_op = "validate"
    /\ f_res = None
    /\ f_res' = Some(validate(f_arg.document))
    /\ UNCHANGED <<f_op, f_arg, outsideFn>>

ValidateNext == ApplyValidate

ValidateSpec == ValidateInit /\ [][ValidateNext]_vars

When(cond, e) == IF cond THEN {e} ELSE {}

\* the violated checks of one content block, as (path, message) pairs
BlockViolations(block, path) ==
    When(block.type = "heading"
         /\ (block.level = None \/ (block.level # None /\ block.level[1] \notin 1..4)),
         Err(path, "Heading level must be between 1 and 4"))
    \cup When(block.type = "table" /\ block.table = None,
              Err(path, "Table block requires table data"))
    \cup When(block.type = "table" /\ block.table # None
              /\ Len(block.table[1].headers) = 0 /\ Len(block.table[1].rows) = 0,
              Err(path, "Table must have headers or rows"))
    \cup When(block.type \in {"bullet_list", "numbered_list"}
              /\ (block.items = None \/ (block.items # None /\ Len(block.items[1]) = 0)),
              Err(path, "List block requires items"))
    \cup When(block.type = "signature_block" /\ block.signature = None,
              Err(path, "Signature block requires signature data"))

\* the violated checks of a section and of everything below it;
\* parent is None or Some(the parent's level)
RECURSIVE SectionViolations(_, _, _)
SectionViolations(section, path, parent) ==
    When(section.id = "", Err(path, "Section ID is required"))
    \cup When(Len(section.heading) = 0, Err(path, "Section heading is required"))
    \cup When(section.level \notin 1..4, Err(path, "Section level must be between 1 and 4"))
    \cup When(parent # None /\ section.level <= parent[1],
              Err(path, "Subsection level must be greater than parent level"))
    \cup UNION {BlockViolations(section.content_blocks[j],
                                path \o ".content_blocks[" \o ToString(j - 1) \o "]") :
                    j \in 1..Len(section.content_blocks)}
    \cup UNION {SectionViolations(section.subsections[k],
                                  path \o ".subsections[" \o ToString(k - 1) \o "]",
                                  Some(section.level)) :
                    k \in 1..Len(section.subsections)}

TreeViolations(document) ==
    UNION {SectionViolations(document.sections[i], "sections[" \o ToString(i - 1) \o "]", None) :
               i \in 1..Len(document.sections)}

Validated == f_op = "validate" /\ f_res # None

\* the entries of the error list that carry a path
NodeErrors(errors) == SelectSeq(errors, LAMBDA e : e.path # "")

\* C15: validate returns ok exactly when its error list is empty and reports
\* every violation in one pass: the entries that carry a path are, one per
\* violated check, the violations of all sections, subsections and content
\* blocks of the tree, each under the path of its node.
ValidateReportsAll ==
    Validated =>
        LET res == f_res[1]
            node == NodeErrors(res.errors)
        IN  /\ res.ok <=> res.errors = <<>>
            /\ {node[k] : k \in 1..Len(node)} = TreeViolations(f_arg.document)
            /\ Len(node) = Cardinality(TreeViolations(f_arg.document))

\* violations at two sections, a subsection and two content blocks, all reported
ValidateReportsAllWitness ==
    /\ Validated
    /\ ~f_res[1].ok
    /\ Err("sections[0]", "Section ID is required") \in TreeViolations(f_arg.document)
    /\ Err("sections[0].content_blocks[0]", "Table must have headers or rows")
           \in TreeViolations(f_arg.document)
    /\ Err("sections[0].subsections[0]", "Subsection level must be greater than parent level")
           \in TreeViolations(f_arg.document)
    /\ Err("sections[0].subsections[0].content_blocks[0]", "Heading level must be between 1 and 4")
           \in TreeViolations(f_arg.document)
    /\ Err("sections[1].content_blocks[0]", "List block requires items")
           \in TreeViolations(f_arg.document)
    /\ Len(NodeErrors(f_res[1].errors)) >= 8

\* the positions (batch, item) of call c that hold the text and whose batch
\* has been sent to the backend
SentPositions(c, text) ==
    {<<i, n>> \in TaskIds(c) \X (1..DEFAULT_MAX_ITEMS) :
         /\ n <= Len(Items(c, i))
         /\ Items(c, i)[n].text = text
         /\ t_task[c][i].requests >= 1}

\* C16: in a translate_uif run that starts from an empty cache, a text that
\* occurs at several leaves is sent to the backend at most once.
RepeatedTextSentOnce ==
    \A c \in Calls :
        (t_call[c].pc # "idle" /\ DOMAIN t_call[c].cache_at_start = {}) =>
            \A n \in 1..Len(t_call[c].text_items) :
                Cardinality(SentPositions(c, t_call[c].text_items[n].text)) <= 1

\* C17: the cache holds a value for (text, language) only when the backend
\* produced a non-empty translation of the text: no lookup returns the
\* untranslated source text.
CacheHoldsOnlyTranslations ==
    \A c \in Calls :
        \A n \in 1..Len(t_call[c].text_items) :
            LET text == t_call[c].text_items[n].text
                key == _make_key(text, t_lang[c])
            IN  key \in DOMAIN cache._cache => cache._cache[key] # text

(***************************************************************************)
(* Table Builder (builders/table.py)                                       *)
(***************************************************************************)
Smaller(a, b) == IF a < b THEN a ELSE b
Larger(a, b) == IF a > b THEN a ELSE b

\* the colspan-aware width of one row of cell data
RECURSIVE ColCount(_)
ColCount(row) == IF row = <<>> THEN 0 ELSE Head(row).colspan + ColCount(Tail(row))

RECURSIVE _get_max_columns(_)
_get_max_columns(rows) ==
    IF rows = <<>> THEN 0
    ELSE Larger(ColCount(Head(rows)), _get_max_columns(Tail(rows)))

\* doc.add_table(rows, cols): one row of the grid, every column its own cell
FreshRow(num_cols) == [c \in 1..num_cols |-> [text |-> <<>>, origin |-> c - 1]]

\* cell.merge(row.cells[merge_end_idx]): the columns become one cell
MergeCells(cells, col_idx, merge_end_idx) ==
    [c \in 1..Len(cells) |->
        IF c - 1 >= col_idx /\ c - 1 <= merge_end_idx
        THEN [cells[c] EXCEPT !.origin = col_idx]
        ELSE cells[c]]

\* cell.text = ...: every grid column of the cell shows the text
SetCellText(cells, col_idx, text) ==
    [c \in 1..Len(cells) |->
        IF cells[c].origin = cells[col_idx + 1].origin
        THEN [cells[c] EXCEPT !.text = text]
        ELSE cells[c]]

RowState(cells, col_idx, placed, raised) ==
    [cells |-> cells, col_idx |-> col_idx, placed |-> placed, raised |-> raised]

\* a data-row loop that moves on by one column whatever the colspan
RECURSIVE DataRowLoopByOne(_, _, _, _, _)
DataRowLoopByOne(cells, row_data, col_idx, num_cols, placed) ==
    IF row_data = <<>> \/ col_idx >= num_cols \/ col_idx >= Len(cells)
    THEN RowState(cells, col_idx, placed, FALSE)
    ELSE LET cell_config == Head(row_data)
             merge_end_idx == Smaller(col_idx + cell_config.colspan - 1, num_cols - 1)
             merged == IF cell_config.colspan > 1 /\ merge_end_idx > col_idx
                       THEN MergeCells(cells, col_idx, merge_end_idx)
                       ELSE cells
         IN  DataRowLoopByOne(SetCellText(merged, col_idx, cell_config.content),
                              Tail(row_data), col_idx + 1, num_cols, placed + 1)

\* the for loop of _add_data_row: stop at the table's width, merge within
\* it, write the text, move on by the colspan
RECURSIVE DataRowLoop(_, _, _, _, _)
DataRowLoop(cells, row_data, col_idx, num_cols, placed) ==
    IF row_data = <<>> \/ col_idx >= num_cols \/ col_idx >= Len(cells)
    THEN RowState(cells, col_idx, placed, FALSE)
    ELSE IF col_idx + 1 \notin DOMAIN cells
    THEN RowState(cells, col_idx, placed, TRUE)
    ELSE LET cell_config == Head(row_data)
             merge_end_idx == Smaller(col_idx + cell_config.colspan - 1, num_cols - 1)
             merged == IF cell_config.colspan > 1 /\ merge_end_idx > col_idx
                       THEN MergeCells(cells, col_idx, merge_end_idx)
                       ELSE cells
         IN  DataRowLoop(SetCellText(merged, col_idx, cell_config.content),
                         Tail(row_data), col_idx + cell_config.colspan,
                         num_cols, placed + 1)

\* the trailing while loop of _add_data_row
RECURSIVE FillRemaining(_, _, _)
FillRemaining(cells, col_idx, num_cols) ==
    IF col_idx < num_cols /\ col_idx < Len(cells)
    THEN FillRemaining(SetCellText(cells, col_idx, <<>>), col_idx + 1, num_cols)
    ELSE cells

_add_data_row(row_data, num_cols) ==
    LET done == DataRowLoop(FreshRow(num_cols), row_data, 0, num_cols, 0)
    IN  [done EXCEPT !.cells = FillRemaining(done.cells, done.col_idx, num_cols)]

_add_header_row(headers, num_cols) ==
    [c \in 1..num_cols |->
        [text |-> IF c <= Len(headers) THEN headers[c] ELSE <<>>, origin |-> c - 1]]

\* add_table: None when there is nothing to lay out, else the filled grid
add_table(block) ==
    LET headers == block.headers
        rows == block.rows
        num_cols == IF Len(headers) > 0 THEN Len(headers) ELSE _get_max_columns(rows)
    IN  IF Len(headers) = 0 /\ Len(rows) = 0 THEN None
        ELSE IF num_cols = 0 THEN None
        ELSE Some([num_cols |-> num_cols,
                   header |-> IF Len(headers) > 0
                              THEN Some(_add_header_row(headers, num_cols))
                              ELSE None,
                   rows |-> [r \in 1..Len(rows) |-> _add_data_row(rows[r], num_cols)]])

(***************************************************************************)
(* Tables of every row shape                                               *)
(***************************************************************************)
MaxHeaders == 3     \* headers of a laid-out table
MaxRowCells == 3    \* declared cells of a data row
MaxColspan == 3     \* largest colspan of a declared cell

SpanCellPool ==
    {StrCell(<<"a">>)} \cup {TableCell(<<"b">>, k) : k \in 1..MaxColspan}

\* a row that is as wide as any row of plain cells can be
WideRow == [c \in 1..MaxRowCells |-> StrCell(<<"w">>)]

LaidOutTables ==
    {TableBlock([c \in 1..n |-> <<"h">>], rows) :
        n \in 0..MaxHeaders,
        rows \in {<<>>}
                 \cup {<<r>> : r \in SeqsUpTo(SpanCellPool, MaxRowCells)}
                 \cup {<<r, w>> : r \in SeqsUpTo(SpanCellPool, MaxRowCells),
                                  w \in {<<>>, WideRow}}}

TableInit ==
    /\ f_op = "table"
    /\ f_arg \in LaidOutTables
    /\ f_res = <<>>
    /\ PathIdle
    /\ TransIdle
    /\ RenderIdle
    /\ ParIdle

ApplyAddTable ==
    /\ f_op = "table"
    /\ f_op' = "add_table"
    /\ f_res' = <<add_table(f_arg)>>
    /\ UNCHANGED <<f_arg, outsideFn>>

TableNext == ApplyAddTable

TableSpec == TableInit /\ [][TableNext]_vars

\* the column at which the j-th declared cell of a row starts
StartColumn(row_data, j) == ColCount(SubSeq(row_data, 1, j - 1))

\* the columns of a laid-out row that belong to the cell starting at col
ColumnsOf(cells, col) == {c \in 0..(Len(cells) - 1) : cells[c + 1].origin = col}

\* the number of columns the table is to have
StatedColumns(block) ==
    IF Len(block.headers) > 0 THEN Len(block.headers)
    ELSE IF \E r \in 1..Len(block.rows) : Len(block.rows[r]) > 0
    THEN CHOOSE n \in 0..(MaxRowCells * (MaxColspan + 1)) :
            /\ \A r \in 1..Len(block.rows) : ColCount(block.rows[r]) <= n
            /\ \E r \in 1..Len(block.rows) : ColCount(block.rows[r]) = n
    ELSE 0

RowLaidOutAsStated(row_data, row, N) ==
    /\ ~row.raised
    /\ Len(row.cells) = N
    /\ \A c \in 1..N : row.cells[c].origin \in 0..(N - 1)
    /\ \A j \in 1..Len(row_data) :
          LET c == StartColumn(row_data, j)
              k == row_data[j].colspan
          IN  c + k <= N =>
                /\ ColumnsOf(row.cells, c) = c..(c + k - 1)
                /\ \A col \in c..(c + k - 1) :
                      row.cells[col + 1].text = row_data[j].content
    /\ \A col \in 0..(N - 1) :
          col >= ColCount(row_data) =>
              /\ row.cells[col + 1].text = <<>>
              /\ ColumnsOf(row.cells, col) = {col}

\* C20: a table has as many columns N as it has headers, or else as its
\* widest row needs; a data-row cell of colspan k that starts at column c
\* with c + k <= N takes exactly the columns c..c+k-1 and the next declared
\* cell starts at c + k; the columns a short row does not cover hold the
\* empty string; and no row shape makes the layout raise or reach outside
\* the columns 0..N-1.
TableLaidOutAsStated ==
    (f_op = "add_table" /\ IsSome(f_res[1])) =>
        LET table == f_res[1][1]
            N == table.num_cols
        IN  /\ N = StatedColumns(f_arg)
            /\ Len(table.rows) = Len(f_arg.rows)
            /\ \A r \in 1..Len(f_arg.rows) :
                  RowLaidOutAsStated(f_arg.rows[r], table.rows[r], N)

\* three headers, a row of a two-column cell and a plain cell; and a table
\* without headers whose first row is one column short of the second
TableLaidOutWitness ==
    /\ f_op = "add_table"
    /\ \/ /\ Len(f_arg.headers) = 3
          /\ f_arg.rows = <<<<TableCell(<<"b">>, 2), StrCell(<<"a">>)>>>>
          /\ [c \in 1..3 |-> f_res[1][1].rows[1].cells[c].origin] = <<0, 0, 2>>
       \/ /\ Len(f_arg.headers) = 0
          /\ f_arg.rows = <<<<TableCell(<<"b">>, 2)>>, WideRow>>
          /\ f_res[1][1].rows[1].cells[3].text = <<>>

(***************************************************************************)
(* The text leaves of a tree that rendering puts into the document, each   *)
(* with its place in the tree (engine.py and the builders)                 *)
(***************************************************************************)
\* ListBuilder._parse_item: a str item is its own text, a dict item gives
\* item.get("content", "")
ListItemEmits(item, k, base_path) ==
    IF item.kind = "str"
    THEN <<TextItem(Idx(base_path \o <<"items">>, k), item.text)>>
    ELSE IF item.has_content
    THEN <<TextItem(Idx(base_path \o <<"items">>, k) \o <<"content">>, item.content)>>
    ELSE <<>>

\* _render_table and add_table: the headers, then the cells each row places
TableEmits(tb, base_path) ==
    LET table == add_table(tb)
    IN  IF ~IsSome(table) THEN <<>>
        ELSE [k \in 1..Len(tb.headers) |->
                 TextItem(Idx(base_path \o <<"table", "headers">>, k - 1), tb.headers[k])]
             \o ConcatAll([r \in 1..Len(tb.rows) |->
                    [c \in 1..table[1].rows[r].placed |->
                        LET cell_path == Idx(Idx(base_path \o <<"table", "rows">>, r - 1), c - 1)
                        IN  IF tb.rows[r][c].kind = "str"
                            THEN TextItem(cell_path, tb.rows[r][c].content)
                            ELSE TextItem(cell_path \o <<"content">>,
                                          tb.rows[r][c].content)]])

\* _render_signature_block: the preamble if any, then "label: " per line
SignatureEmits(sg, base_path) ==
    (IF IsSome(sg.preamble) /\ Truthy(sg.preamble[1])
     THEN <<TextItem(base_path \o <<"signature", "preamble">>, sg.preamble[1])>>
     ELSE <<>>)
    \o [l \in 1..Len(sg.lines) |->
           TextItem(Idx(base_path \o <<"signature", "lines">>, l - 1) \o <<"label">>,
                    sg.lines[l].label)]

\* _render_content_block: one branch per block type
BlockEmits(block, base_path) ==
    IF block.type \in {"paragraph", "heading"}
    THEN IF Truthy(Strip(block.content))
         THEN <<TextItem(base_path \o <<"content">>, block.content)>>
         ELSE <<>>
    ELSE IF block.type \in {"bullet_list", "numbered_list"}
    THEN IF IsSome(block.items)
         THEN ConcatAll([k \in 1..Len(block.items[1]) |->
                  ListItemEmits(block.items[1][k], k - 1, base_path)])
         ELSE <<>>
    ELSE IF block.type = "table"
    THEN IF IsSome(block.table) THEN TableEmits(block.table[1], base_path) ELSE <<>>
    ELSE IF block.type = "signature_block"
    THEN IF IsSome(block.signature)
         THEN SignatureEmits(block.signature[1], base_path)
         ELSE <<>>
    ELSE <<>>

\* _render_section: the heading, the blocks, the subsections
RECURSIVE SectionEmits(_, _)
SectionEmits(sections, base_path) ==
    ConcatAll([i \in 1..Len(sections) |->
        LET section_path == Idx(base_path, i - 1)
        IN  (IF Truthy(Strip(sections[i].heading))
             THEN <<TextItem(section_path \o <<"heading">>, sections[i].heading)>>
             ELSE <<>>)
            \o ConcatAll([j \in 1..Len(sections[i].content_blocks) |->
                   BlockEmits(sections[i].content_blocks[j],
                              Idx(section_path \o <<"blocks">>, j - 1))])
            \o SectionEmits(sections[i].subsections, section_path \o <<"subsections">>)])

\* render: the title behind "if document.title", then the sections
RendererEmits(document) ==
    (IF Truthy(document.title) THEN <<TextItem(<<"title">>, document.title)>> ELSE <<>>)
    \o SectionEmits(document.sections, <<"sections">>)

\* the emitted leaves that hold more than whitespace
NonEmptyEmits(document) ==
    LET HoldsText(leaf) == Truthy(Strip(leaf.text))
    IN  SelectSeq(RendererEmits(document), HoldsText)

\* C18: the extractor yields exactly one (path, text) pair for every
\* non-empty text leaf that the renderer emits (title, section headings,
\* paragraph and heading content, plain and structured list items, table
\* headers and cells, signature preamble and labels), in depth-first
\* pre-order: the collected pairs at the emitted places are the emitted
\* leaves, in the order of rendering.
ExtractorCoversRenderedText ==
    p_pc # "start" =>
        LET emitted == NonEmptyEmits(p_tree)
            AtEmitted(it) == it.path \in PathsOf(emitted)
        IN  SelectSeq(p_items, AtEmitted) = emitted

(***************************************************************************)
(* Inline formatting of a paragraph (builders/section.py)                  *)
(***************************************************************************)
InlineFormat(start, end, bold, italic, underline) ==
    [start |-> start, end |-> end, bold |-> bold, italic |-> italic,
     underline |-> underline]

FormatSpecOf(r) == [bold |-> r.bold, italic |-> r.italic, underline |-> r.underline]

PlainFormat == [bold |-> FALSE, italic |-> FALSE, underline |-> FALSE]

\* a run of the paragraph; paragraph.add_run(content) alone sets no flag
Run(text, format_spec) ==
    [text |-> text, bold |-> format_spec.bold, italic |-> format_spec.italic,
     underline |-> format_spec.underline]

\* list.sort(key=start): stable, so equal starts keep their order
RECURSIVE InsertByStart(_, _)
InsertByStart(sorted, r) ==
    IF sorted = <<>> THEN <<r>>
    ELSE IF sorted[Len(sorted)].start <= r.start THEN Append(sorted, r)
    ELSE Append(InsertByStart(SubSeq(sorted, 1, Len(sorted) - 1), r), sorted[Len(sorted)])

RECURSIVE SortByStart(_)
SortByStart(ranges) ==
    IF ranges = <<>> THEN <<>>
    ELSE InsertByStart(SortByStart(SubSeq(ranges, 1, Len(ranges) - 1)), ranges[Len(ranges)])

\* clamp each range into [0, content_length], drop the empty ones, sort
_validate_and_sort_ranges(ranges, content_length) ==
    LET Clamped(r) ==
            LET start == Larger(0, Smaller(r.start, content_length))
                end == Larger(start, Smaller(r.end, content_length))
            IN  [r EXCEPT !.start = start, !.end = end]
        clamped == [k \in 1..Len(ranges) |-> Clamped(ranges[k])]
        Spans(r) == r.start < r.end
    IN  SortByStart(SelectSeq(clamped, Spans))

\* a format map in which a later range replaces what an earlier one set
RECURSIVE FormatMapLastWins(_, _)
FormatMapLastWins(ranges, char_formats) ==
    IF ranges = <<>> THEN char_formats
    ELSE LET r == Head(ranges)
         IN  FormatMapLastWins(Tail(ranges),
                 [i \in 1..Len(char_formats) |->
                     IF i - 1 >= r.start /\ i - 1 < r.end
                     THEN FormatSpecOf(r)
                     ELSE char_formats[i]])

\* the loop of _build_character_format_map: each range turns its flags on
RECURSIVE FormatMapLoop(_, _)
FormatMapLoop(ranges, char_formats) ==
    IF ranges = <<>> THEN char_formats
    ELSE LET r == Head(ranges)
         IN  FormatMapLoop(Tail(ranges),
                 [i \in 1..Len(char_formats) |->
                     IF i - 1 >= r.start /\ i - 1 < r.end
                     THEN [bold |-> char_formats[i].bold \/ r.bold,
                           italic |-> char_formats[i].italic \/ r.italic,
                           underline |-> char_formats[i].underline \/ r.underline]
                     ELSE char_formats[i]])

_build_character_format_map(ranges, content_length) ==
    FormatMapLoop(ranges, [i \in 1..content_length |-> PlainFormat])

\* the loop of _create_formatted_runs, i counted from 0 as in the code
RECURSIVE RunsLoop(_, _, _, _, _)
RunsLoop(content, char_formats, i, current_start, runs) ==
    IF i >= Len(content)
    THEN Append(runs, Run(SubSeq(content, current_start + 1, Len(content)),
                          char_formats[current_start + 1]))
    ELSE IF char_formats[i + 1] # char_formats[current_start + 1]
    THEN RunsLoop(content, char_formats, i + 1, i,
                  Append(runs, Run(SubSeq(content, current_start + 1, i),
                                   char_formats[current_start + 1])))
    ELSE RunsLoop(content, char_formats, i + 1, current_start, runs)

_create_formatted_runs(content, char_formats) ==
    IF Len(content) = 0 \/ Len(char_formats) = 0 THEN <<>>
    ELSE RunsLoop(content, char_formats, 1, 0, <<>>)

_apply_inline_formatting(content, formatting) ==
    LET validated_ranges == _validate_and_sort_ranges(formatting, Len(content))
    IN  IF Len(formatting) = 0 THEN <<Run(content, PlainFormat)>>
        ELSE IF Len(validated_ranges) = 0 THEN <<Run(content, PlainFormat)>>
        ELSE _create_formatted_runs(content,
                 _build_character_format_map(validated_ranges, Len(content)))

\* add_paragraph: the stripped content and the runs put into the paragraph
add_paragraph(block) ==
    LET content == IF Truthy(block.content) THEN Strip(block.content) ELSE <<>>
    IN  [content |-> content,
         runs |-> IF IsSome(block.formatting) /\ Truthy(content)
                  THEN _apply_inline_formatting(content, block.formatting[1])
                  ELSE IF Truthy(content) THEN <<Run(content, PlainFormat)>>
                  ELSE <<>>]

(***************************************************************************)
(* Paragraphs with formatting ranges of every kind                         *)
(***************************************************************************)
MaxContent == 4     \* characters of a formatted paragraph
MaxRanges == 2      \* formatting ranges of a paragraph

Letters == <<"a", "b", "c", "d", "e", "f", "g", "h">>

FormattedContents ==
    {SubSeq(Letters, 1, n) : n \in 1..MaxContent}
    \cup {<<" ">>, <<" ">> \o SubSeq(Letters, 1, MaxContent - 1)}

\* ranges inside the content, before its start, past its end, and empty
RangePool ==
    {InlineFormat(start, end, f[1], f[2], f[3]) :
        start \in -1..(MaxContent - 2),
        end \in (1..MaxContent) \cup {MaxContent + 5},
        f \in {<<TRUE, FALSE, FALSE>>, <<FALSE, TRUE, FALSE>>,
               <<TRUE, FALSE, TRUE>>, <<FALSE, FALSE, FALSE>>}}

FormattedParagraphs ==
    {[Paragraph(c) EXCEPT !.formatting = fm] :
        c \in FormattedContents,
        fm \in {None} \cup {Some(rs) : rs \in SeqsUpTo(RangePool, MaxRanges)}}

FormatInit ==
    /\ f_op = "paragraph"
    /\ f_arg \in FormattedParagraphs
    /\ f_res = <<>>
    /\ PathIdle
    /\ TransIdle
    /\ RenderIdle
    /\ ParIdle

ApplyAddParagraph ==
    /\ f_op = "paragraph"
    /\ f_op' = "add_paragraph"
    /\ f_res' = <<add_paragraph(f_arg)>>
    /\ UNCHANGED <<f_arg, outsideFn>>

FormatNext == ApplyAddParagraph

FormatSpec == FormatInit /\ [][FormatNext]_vars

\* the flags of each character as the runs carry them
CharFlags(runs) ==
    ConcatAll([r \in 1..Len(runs) |->
        [j \in 1..Len(runs[r].text) |-> FormatSpecOf(runs[r])]])

\* a range, clamped to the content, covers the index (counted from 0)
Covers(range, idx, content_length) ==
    /\ Larger(0, range.start) <= idx
    /\ idx < Smaller(range.end, content_length)

MAX_NESTING_LEVEL == 9

\* the bullet glyphs by level, named by their code points
BULLET_CHARS ==
    <<"2022", "25E6", "25AA", "2022", "25E6", "25AA", "2022", "25E6", "25AA">>

\* an item handed over as a ListItem object
ListItemObject(c, lvl) ==
    [kind |-> "obj", has_text |-> FALSE, text |-> <<>>, has_content |-> TRUE,
     content |-> c, level |-> lvl]

\* _parse_item: a ListItem is returned as it is, a str gets level 0, a dict
\* gets min(level, MAX_NESTING_LEVEL - 1)
_parse_item(item) ==
    IF item.kind = "obj" THEN [content |-> item.content, level |-> item.level]
    ELSE IF item.kind = "str" THEN [content |-> item.text, level |-> 0]
    ELSE [content |-> IF item.has_content THEN item.content ELSE <<>>,
          level |-> Smaller(item.level, MAX_NESTING_LEVEL - 1)]

\* f"ListBulletLevel{level}" after level = min(level, MAX_NESTING_LEVEL - 1)
_get_style_name(list_type, level) ==
    [list_type |-> list_type, level |-> Smaller(level, MAX_NESTING_LEVEL - 1)]

\* the paragraph of one bullet item: style, indent in steps of
\* INDENT_PER_LEVEL, glyph, text
_add_list_item(item, style_name) ==
    [style |-> Some(style_name),
     ilvl |-> None,
     indent_steps |-> item.level + 1,
     glyph |-> Some(BULLET_CHARS[(item.level % Len(BULLET_CHARS)) + 1]),
     text |-> item.content]

\* the paragraph of one numbered item: w:ilvl, indent, text
_add_numbered_item(item) ==
    [style |-> None,
     ilvl |-> Some(item.level),
     indent_steps |-> item.level + 1,
     glyph |-> None,
     text |-> item.content]

\* add_bullet_list and add_numbered_list, for a list of one item
add_list(block_type, item) ==
    LET parsed_item == _parse_item(item)
    IN  IF block_type = "bullet_list"
        THEN _add_list_item(parsed_item, _get_style_name("bullet", parsed_item.level))
        ELSE _add_numbered_item(parsed_item)

MaxLevel == 10      \* largest nesting level requested of an item
MaxBelowZero == 2   \* how far below zero a requested level goes
MinLevel == 0 - MaxBelowZero

ListInputs ==
    {[type |-> ty, item |-> it] :
        ty \in {"bullet_list", "numbered_list"},
        it \in {StrItem(<<"a">>), StrItem(<<"b">>)}
               \cup {[ContentItem(c, lvl) EXCEPT !.kind = k] :
                        c \in {<<"a">>, <<"b">>}, lvl \in MinLevel..MaxLevel,
                        k \in {"dict", "obj"}}}

ListInit ==
    /\ f_op = "list"
    /\ f_arg \in ListInputs
    /\ f_res = <<>>
    /\ PathIdle
    /\ TransIdle
    /\ RenderIdle
    /\ ParIdle

ApplyAddList ==
    /\ f_op = "list"
    /\ f_op' = "add_list"
    /\ f_res' = <<add_list(f_arg.type, f_arg.item)>>
    /\ UNCHANGED <<f_arg, outsideFn>>

ListNext == ApplyAddList

ListSpec == ListInit /\ [][ListNext]_vars

\* the level an item is to be rendered at: the requested level clamped
\* into 0..MAX_NESTING_LEVEL-1 (a plain string requests level 0)
StatedLevel(item) ==
    IF item.kind = "str" THEN 0
    ELSE IF item.level < 0 THEN 0
    ELSE IF item.level > MAX_NESTING_LEVEL - 1 THEN MAX_NESTING_LEVEL - 1
    ELSE item.level

\* C21: every list item is rendered at a level in 0..8: the requested level
\* is clamped into that range before it is used for the glyph, the
\* indentation, the style name or the numbering level, for bullet and
\* numbered lists and for string, dict and ListItem items alike.
LevelClamped ==
    f_op = "add_list" =>
        LET level == StatedLevel(f_arg.item)
            para == f_res[1]
        IN  /\ level \in 0..(MAX_NESTING_LEVEL - 1)
            /\ para.indent_steps = level + 1
            /\ IsSome(para.glyph) => para.glyph[1] = BULLET_CHARS[level + 1]
            /\ IsSome(para.style) => para.style[1].level = level
            /\ IsSome(para.ilvl) => para.ilvl[1] = level

(***************************************************************************)
(* Style Engine (builders/styles.py): the global style state of an output  *)
(* document is its named styles and, per section, the page geometry, the   *)
(* header and the footer                                                   *)
(***************************************************************************)
TextRun(t) == [kind |-> "text", text |-> t]
FieldRun(instr) == [kind |-> instr, text |-> <<>>]

HFParagraph(runs, alignment) == [runs |-> runs, alignment |-> alignment]

\* paragraph.clear(): the runs go, the paragraph properties stay
ClearParagraph(paragraph) == [paragraph EXCEPT !.runs = <<>>]

\* paragraph.text; what the run of a page field contributes to it is the
\* library's affair and is given by page_text
ParagraphText(paragraph, page_text) ==
    ConcatAll([r \in 1..Len(paragraph.runs) |->
        IF paragraph.runs[r].kind = "text" THEN paragraph.runs[r].text
        ELSE IF paragraph.runs[r].kind = "PAGE" THEN page_text
        ELSE <<>>])

\* header.paragraphs[0] if header.paragraphs else header.add_paragraph()
WithFirstParagraph(part) ==
    IF Len(part.paragraphs) > 0 THEN part
    ELSE [part EXCEPT !.paragraphs = <<HFParagraph(<<>>, "left")>>]

_set_style(styles, style_name, settings) ==
    IF style_name \in DOMAIN styles
    THEN [styles EXCEPT ![style_name] =
            [n \in DOMAIN @ |-> IF n \in DOMAIN settings THEN settings[n] ELSE @[n]]]
    ELSE styles

configure_body_style(styles, config) ==
    _set_style(styles, "Normal",
        [font |-> config.default_font, size |-> config.default_font_size,
         line_spacing |-> config.line_spacing])

\* "if color:" leaves the colour of a heading alone when none is configured
configure_heading_styles(styles, config) ==
    LET HeadingSettings(level) ==
            LET base == [font |-> config.heading_font,
                         size |-> config.heading_size[level],
                         bold |-> config.heading_bold[level],
                         line_spacing |-> config.line_spacing,
                         space_before |-> 12, space_after |-> 6]
            IN  IF IsSome(config.heading_color[level])
                THEN [n \in DOMAIN base \cup {"color"} |->
                         IF n = "color" THEN config.heading_color[level] ELSE base[n]]
                ELSE base
        s1 == _set_style(styles, "Heading 1", HeadingSettings(1))
        s2 == _set_style(s1, "Heading 2", HeadingSettings(2))
        s3 == _set_style(s2, "Heading 3", HeadingSettings(3))
    IN  _set_style(s3, "Heading 4", HeadingSettings(4))

apply_document_styling(doc, styling) ==
    [doc EXCEPT !.styles = configure_heading_styles(configure_body_style(@, styling), styling)]

setup_page_layout(doc, page_setup) ==
    [doc EXCEPT !.sections =
        [i \in 1..Len(@) |-> [@[i] EXCEPT !.geometry = page_setup]]]

\* add_header on one section: nothing for an empty text; else clear every
\* paragraph, write the text into the first one, align it
add_header(section, text, alignment) ==
    IF ~Truthy(text) THEN section
    ELSE LET cleared == [section.header EXCEPT
                            !.paragraphs = [j \in 1..Len(@) |-> ClearParagraph(@[j])]]
             header == WithFirstParagraph(cleared)
         IN  [section EXCEPT !.header =
                 [header EXCEPT !.paragraphs[1] =
                     HFParagraph(Append(@.runs, TextRun(text)), alignment)]]

_add_page_number_field(paragraph, include_total) ==
    [paragraph EXCEPT !.runs =
        @ \o <<FieldRun("PAGE")>>
          \o (IF include_total
              THEN <<TextRun(<<" ", "o", "f", " ">>), FieldRun("NUMPAGES")>>
              ELSE <<>>)]

\* add_footer on one section: clear every paragraph, then text, separator
\* and page number into the first one
add_footer(section, text, show_page_number, page_number_position, include_total_pages) ==
    LET cleared == [section.footer EXCEPT
                       !.paragraphs = [j \in 1..Len(@) |-> ClearParagraph(@[j])]]
        footer == WithFirstParagraph(cleared)
        alignment == IF page_number_position = "footer_center" THEN "center" ELSE "right"
        with_text ==
            IF IsSome(text) /\ Truthy(text[1])
            THEN <<TextRun(text[1])>>
                 \o (IF show_page_number
                     THEN <<TextRun(<<" ", " ", "|", " ", " ">>)>>
                     ELSE <<>>)
            ELSE <<>>
        paragraph == HFParagraph(footer.paragraphs[1].runs \o with_text, alignment)
    IN  [section EXCEPT !.footer =
            [footer EXCEPT !.paragraphs[1] =
                IF show_page_number
                THEN _add_page_number_field(paragraph, include_total_pages)
                ELSE paragraph]]

\* _add_page_number_to_header on one section; header.add_table either adds
\* a table to the header or raises, as the library decides (lib.table_raises)
_add_page_number_to_header(section, include_total, lib) ==
    LET header == section.header
    IN  IF Len(header.paragraphs) > 0
           /\ Truthy(ParagraphText(header.paragraphs[1], lib.page_text))
        THEN LET existing_text == ParagraphText(header.paragraphs[1], lib.page_text)
                 cleared == [header EXCEPT !.paragraphs[1] = ClearParagraph(@)]
                 table == [left |-> <<TextRun(existing_text)>>,
                           right |-> _add_page_number_field(
                                         HFParagraph(<<>>, "right"), include_total)]
             IN  IF lib.table_raises
                 THEN [section |-> [section EXCEPT !.header = cleared], raised |-> TRUE]
                 ELSE [section |-> [section EXCEPT !.header =
                                       [cleared EXCEPT !.tables = Append(@, table)]],
                       raised |-> FALSE]
        ELSE LET with_para == WithFirstParagraph(header)
             IN  [section |-> [section EXCEPT !.header =
                                  [with_para EXCEPT !.paragraphs[1] =
                                      _add_page_number_field(
                                          [@ EXCEPT !.alignment = "right"], include_total)]],
                  raised |-> FALSE]

\* the sections of a document one after the other, until one raises
RECURSIVE PageNumbersToHeaders(_, _, _, _)
PageNumbersToHeaders(sections, i, include_total, lib) ==
    IF i > Len(sections) THEN [sections |-> sections, raised |-> FALSE]
    ELSE LET one == _add_page_number_to_header(sections[i], include_total, lib)
             next == [sections EXCEPT ![i] = one.section]
         IN  IF one.raised THEN [sections |-> next, raised |-> TRUE]
             ELSE PageNumbersToHeaders(next, i + 1, include_total, lib)

apply_header_footer_config(doc, config, lib) ==
    LET header_alignment ==
            IF config.page_number_position = "header_right" THEN "left" ELSE "right"
        with_header ==
            IF IsSome(config.header_text) /\ Truthy(config.header_text[1])
            THEN [i \in 1..Len(doc.sections) |->
                     add_header(doc.sections[i], config.header_text[1], header_alignment)]
            ELSE doc.sections
        with_footer ==
            [i \in 1..Len(with_header) |->
                add_footer(with_header[i], config.footer_text, config.show_page_numbers,
                           config.page_number_position, config.include_total_pages)]
        numbered ==
            IF config.show_page_numbers /\ config.page_number_position = "header_right"
            THEN PageNumbersToHeaders(with_footer, 1, config.include_total_pages, lib)
            ELSE [sections |-> with_footer, raised |-> FALSE]
    IN  [doc EXCEPT !.sections = numbered.sections, !.raised = numbered.raised]

\* styling, page layout and header/footer applied to a document
apply_full_styling(doc, config, lib) ==
    apply_header_footer_config(
        setup_page_layout(apply_document_styling(doc, config.styling), config.page_setup),
        config.header_footer, lib)

(***************************************************************************)
(* Fresh documents and configurations                                      *)
(***************************************************************************)
MaxSections == 2    \* sections of an output document

StyleNames == {"Normal", "Heading 1", "Heading 2", "Heading 3", "Heading 4"}

\* StyleEngine.__init__ and _ensure_styles_exist on a new document
FreshDocument(num_sections, header_paragraphs) ==
    [styles |-> [n \in StyleNames |->
                    [font |-> "Calibri", size |-> 11, bold |-> FALSE, color |-> None,
                     line_spacing |-> 100, space_before |-> 0, space_after |-> 0]],
     sections |-> [i \in 1..num_sections |->
                    [geometry |-> PageSetup(85, 110, 10),
                     header |-> [paragraphs |-> [j \in 1..header_paragraphs |->
                                                    HFParagraph(<<>>, "left")],
                                 tables |-> <<>>],
                     footer |-> [paragraphs |-> [j \in 1..header_paragraphs |->
                                                    HFParagraph(<<>>, "left")],
                                 tables |-> <<>>]]],
     raised |-> FALSE]

StylingConfigs ==
    {[default_font |-> "Arial", default_font_size |-> fs, heading_font |-> "Arial",
      heading_size |-> <<16, 14, 12, 11>>,
      heading_bold |-> <<TRUE, TRUE, TRUE, FALSE>>,
      heading_color |-> <<col, None, None, None>>,
      line_spacing |-> 115] :
        fs \in {11, 12}, col \in {None, Some("0066CC")}}

HeaderFooterConfigs ==
    {[header_text |-> ht, footer_text |-> ft, show_page_numbers |-> sp,
      page_number_position |-> pos, include_total_pages |-> tot] :
        ht \in {None, Some(<<"H">>)}, ft \in {None, Some(<<"F">>)},
        sp \in BOOLEAN, pos \in {"footer_center", "footer_right", "header_right"},
        tot \in BOOLEAN}

StyleInputs ==
    {[config |-> [styling |-> st, page_setup |-> ps, header_footer |-> hf],
      lib |-> [page_text |-> pt, table_raises |-> tr],
      doc |-> FreshDocument(n, hp)] :
        st \in StylingConfigs,
        ps \in {PageSetup(85, 110, 10), PageSetup(83, 117, 5)},
        hf \in HeaderFooterConfigs,
        pt \in {<<>>, <<"P">>}, tr \in BOOLEAN,
        n \in 1..MaxSections, hp \in 0..1}

StyleInit ==
    /\ f_op = "style"
    /\ f_arg \in StyleInputs
    /\ f_res = <<>>
    /\ PathIdle
    /\ TransIdle
    /\ RenderIdle
    /\ ParIdle

\* the configuration applied to the fresh document
ApplyStyling ==
    /\ f_op = "style"
    /\ f_op' = "styled"
    /\ f_res' = <<apply_full_styling(f_arg.doc, f_arg.config, f_arg.lib)>>
    /\ UNCHANGED <<f_arg, outsideFn>>

\* the same configuration applied again to the document as it stands
ApplyStylingAgain ==
    /\ f_op = "styled"
    /\ f_op' = "styled_twice"
    /\ f_res' = Append(f_res, apply_full_styling(f_res[1], f_arg.config, f_arg.lib))
    /\ UNCHANGED <<f_arg, outsideFn>>

StyleNext == ApplyStyling \/ ApplyStylingAgain

StyleSpec == StyleInit /\ [][StyleNext]_vars

\* C22: the Style Engine is idempotent: the named styles and every
\* section's page geometry, header and footer are the same after applying
\* a configuration twice as after applying it once; the second application
\* appends nothing.
StylingIdempotent ==
    f_op = "styled_twice" =>
        /\ f_res[2].styles = f_res[1].styles
        /\ f_res[2].sections = f_res[1].sections

(***************************************************************************)
(* Retries of a batch                                                      *)
(***************************************************************************)
\* C23: every batch of a run gets at least 1 and at most max_retries (4)
\* backend requests, whatever the backend answers, and a batch whose
\* response was accepted gets no further request.
RequestsWithinCeiling ==
    /\ [](\A c \in Calls : \A i \in TaskIds(c) :
             /\ t_task[c][i].requests <= max_retries
             /\ t_task[c][i].pc = "done" => t_task[c][i].requests >= 1)
    /\ [][\A c \in Calls : \A i \in TaskIds(c) :
             t_task[c][i].pc = "done" => t_task'[c][i] = t_task[c][i]]_vars

\* one batch answered at its first request, another one of the same call
\* given up after the fourth
RequestsWithinCeilingWitness ==
    \E c \in Calls : \E i, j \in TaskIds(c) :
        /\ t_task[c][i].pc = "done" /\ t_task[c][i].requests = 1
        /\ t_task[c][j].pc = "done" /\ t_task[c][j].requests = max_retries
        /\ t_task[c][j].hist = "mixed"

(***************************************************************************)
(* Delays of a batch task (_translate_batch, the sleep before each request)*)
(***************************************************************************)
\* C25: every request of a batch task follows a positive delay of its own,
\* and each delay is at least twice the delay before the previous request
DelaysBackOffExponentially ==
    \A c \in Calls : \A i \in TaskIds(c) :
        LET delays == t_task[c][i].delays
        IN  /\ Len(delays) = t_task[c][i].requests
            /\ \A k \in 1..Len(delays) : delays[k] > 0
            /\ \A k \in 1..(Len(delays) - 1) : delays[k + 1] >= 2 * delays[k]

(***************************************************************************)
(* One attempt of _translate_batch on its own: the decision to retry       *)
(***************************************************************************)
MaxBatchSize == 5   \* items of the batch an attempt is made for

\* an answer holding every marker, with a translation only for the items
\* whose index is in filled
PartialAnswer(batch, filled) ==
    JoinLines([i \in 1..Len(batch.items) |->
        Bars \o Decimal(i - 1) \o Bars
        \o (IF i \in filled THEN <<" ">> \o Translated(batch.items[i].text) ELSE <<>>)])

AttemptInputs ==
    {[batch |-> TranslationBatch(ItemsOf([k \in 1..n |-> <<"a">>])),
      attempt |-> attempt, r |-> r] :
        n \in 1..MaxBatchSize, attempt \in 0..(max_retries - 1),
        r \in {[kind |-> "raise", text |-> <<>>], [kind |-> "text", text |-> <<>>],
               [kind |-> "text", text |-> <<" ">>]}}
    \cup UNION {{[batch |-> TranslationBatch(ItemsOf([k \in 1..n |-> <<"a">>])),
                  attempt |-> attempt,
                  r |-> [kind |-> "text",
                         text |-> PartialAnswer(
                             TranslationBatch(ItemsOf([k \in 1..n |-> <<"a">>])), filled)]] :
                    attempt \in 0..(max_retries - 1), filled \in SUBSET (1..n)} :
                n \in 1..MaxBatchSize}

RetryInit ==
    /\ f_op = "attempt"
    /\ f_arg \in AttemptInputs
    /\ f_res = <<>>
    /\ PathIdle
    /\ TransIdle
    /\ RenderIdle
    /\ ParIdle

ApplyAttempt ==
    /\ f_op = "attempt"
    /\ f_op' = "attempted"
    /\ f_res' = <<AttemptOutcome(f_arg.batch, f_arg.attempt, f_arg.r)>>
    /\ UNCHANGED <<f_arg, outsideFn>>

RetryNext == ApplyAttempt

RetrySpec == RetryInit /\ [][RetryNext]_vars

\* C24: while attempts remain, an attempt whose response is blank, or whose
\* parsed translations are empty for more than half of the batch's items, is
\* followed by a retry, for every batch size; a response with at least half
\* of the items non-empty is returned as parsed, without a retry.
RetriedWhenMajorityEmpty ==
    (f_op = "attempted" /\ f_arg.r.kind = "text" /\ f_arg.attempt < max_retries - 1) =>
        LET n == Len(f_arg.batch.items)
            blank == ~Truthy(Strip(f_arg.r.text))
            translations == parse_response(f_arg.r.text, n)
            empties == n - NonEmpty(translations)
        IN  /\ (blank \/ 2 * empties > n) => f_res[1].kind = "continue"
            /\ (~blank /\ 2 * NonEmpty(translations) >= n) =>
                   f_res[1] = [kind |-> "return", value |-> translations]

(***************************************************************************)
(* Leaves of the returned tree                                             *)
(***************************************************************************)
\* C28: translation never blanks a leaf. The cache holds no empty entry, and
\* in the tree a call returns every leaf the extractor collected is
\* non-empty; an item whose batch raised, or whose translation is empty or
\* missing in the list its batch returned, keeps its original text.
NoLeafBlanked ==
    /\ \A k \in DOMAIN cache._cache : cache._cache[k] # <<>>
    /\ \A c \in Calls :
        t_call[c].pc = "done" =>
            LET source == Leaves(t_orig[c])
                returned == Leaves(Returned(c))
            IN  /\ \A n \in 1..Len(t_call[c].text_items) :
                       /\ t_call[c].text_items[n].text # <<>>
                       /\ source[t_call[c].text_items[n].path] = t_call[c].text_items[n].text
                       /\ returned[t_call[c].text_items[n].path] # <<>>
                /\ \A i \in TaskIds(c) : \A n \in 1..Len(Items(c, i)) :
                       (\/ t_task[c][i].result.kind = "raise"
                        \/ n > Len(t_task[c][i].result.value)
                        \/ t_task[c][i].result.value[n] = <<>>) =>
                           returned[Items(c, i)[n].path] = Items(c, i)[n].text

\* a call returned after one batch raised and another returned a list with
\* an empty entry next to a translated one
NoLeafBlankedWitness ==
    \E c \in Calls :
        /\ t_call[c].pc = "done"
        /\ \E i \in TaskIds(c) : t_task[c][i].result.kind = "raise"
        /\ \E i \in TaskIds(c) :
               /\ t_task[c][i].result.kind = "return"
               /\ \E n, m \in 1..Len(t_task[c][i].result.value) :
                      /\ t_task[c][i].result.value[n] = <<>>
                      /\ t_task[c][i].result.value[m] # <<>>

(***************************************************************************)
(* When a call touches the cache                                           *)
(***************************************************************************)
CacheReads == cache._hits + cache._misses

\* C30: within a call the cache is read only before the call's batches are
\* dispatched (one lookup per collected item, in the step that leaves
\* "idle") and written only once all of its batches have finished (in the
\* step that leaves the gather); a step of a batch task leaves the cache,
\* its counters included, as it is.
CacheTouchedOutsideFlight ==
    [][/\ CacheReads' # CacheReads =>
              \E c \in Calls :
                  /\ t_call[c].pc = "idle"
                  /\ t_call'[c].pc # "idle"
                  /\ CacheReads' = CacheReads + Len(t_call'[c].text_items)
                  /\ cache'._cache = cache._cache
       /\ cache'._cache # cache._cache =>
              \E c \in Calls :
                  /\ t_call[c].pc = "gather"
                  /\ AllDone(c)
                  /\ t_call'[c].pc = "done"
                  /\ CacheReads' = CacheReads
       /\ \A c \in Calls :
              (t_call[c].pc = "gather" /\ t_task'[c] # t_task[c]) => cache' = cache]_vars

\* a call has a request in flight after it took a hit on an entry that a
\* finished call wrote
CacheTouchedWitness ==
    /\ cache._hits > 0
    /\ cache._cache # <<>>
    /\ \E c, d \in Calls :
           /\ t_call[d].pc = "done"
           /\ t_call[c].pc = "gather"
           /\ \E i \in TaskIds(c) : t_task[c][i].pc = "awaiting"

(***************************************************************************)
(* The merge of the batch results                                          *)
(***************************************************************************)
\* what the result of batch i of call c gives its n-th item
MergedValue(c, i, n) ==
    LET result == t_task[c][i].result
        item == Items(c, i)[n]
    IN  IF result.kind = "return" /\ n <= Len(result.value) /\ result.value[n] # <<>>
        THEN result.value[n]
        ELSE item.text

\* the items of call c whose result is stored under cache key k, as
\* <<batch, index>>, and the one stored last
Writers(c, k) ==
    {w \in UNION {{<<i, n>> : n \in 1..Len(Items(c, i))} : i \in TaskIds(c)} :
        /\ t_task[c][w[1]].result.kind = "return"
        /\ w[2] <= Len(t_task[c][w[1]].result.value)
        /\ _make_key(Items(c, w[1])[w[2]].text, t_lang[c]) = k}

LastWriter(c, k) ==
    CHOOSE w \in Writers(c, k) :
        \A v \in Writers(c, k) : v[1] < w[1] \/ (v[1] = w[1] /\ v[2] <= w[2])

\* C26: the outcome of a call is a function of its batches' results alone,
\* whatever the order in which the batch tasks entered the section and
\* completed. In the returned tree every batched item holds what its own
\* batch's result gives it, by path. The step that ends the gather leaves in
\* the cache, for every key, the value of the last item in batch order that
\* is stored under it, and the previous entry for every other key.
MergedByPath ==
    /\ [](\A c \in Calls :
            t_call[c].pc = "done" =>
                LET returned == Leaves(Returned(c))
                IN  \A i \in TaskIds(c) : \A n \in 1..Len(Items(c, i)) :
                        returned[Items(c, i)[n].path] = MergedValue(c, i, n))
    /\ [][\A c \in Calls :
            (t_call[c].pc = "gather" /\ t_call'[c].pc = "done") =>
                LET written == {k \in DOMAIN cache'._cache : Writers(c, k) # {}}
                IN  /\ DOMAIN cache'._cache = DOMAIN cache._cache \cup written
                    /\ \A k \in written :
                           cache'._cache[k] =
                               MergedValue(c, LastWriter(c, k)[1], LastWriter(c, k)[2])
                    /\ \A k \in DOMAIN cache._cache \ written :
                           cache'._cache[k] = cache._cache[k]]_vars

\* a call returned whose second batch completed before its first, with
\* different results: one batch translated, the other cut short
MergedByPathWitness ==
    \E c \in Calls :
        /\ t_call[c].pc = "done"
        /\ Len(t_task[c]) = 2
        /\ t_task[c][2].rank = 1
        /\ t_task[c][1].rank = 2
        /\ t_task[c][1].result.kind = "return"
        /\ t_task[c][2].result.kind = "return"
        /\ \E n \in 1..Len(Items(c, 1)) : t_task[c][1].result.value[n] = <<>>
        /\ \A n \in 1..Len(Items(c, 2)) : t_task[c][2].result.value[n] # <<>>

(***************************************************************************)
(* create_batches as a partition of its input                              *)
(***************************************************************************)
\* C29: create_batches partitions its input: no batch is empty, and the
\* batches' item lists, concatenated in batch order, are the input list, so
\* that no item is dropped, duplicated or moved.
BatchesPartitionInput ==
    CreatedBatches =>
        /\ \A b \in 1..Len(f_res[1]) : f_res[1][b].items # <<>>
        /\ ConcatAll([b \in 1..Len(f_res[1]) |-> f_res[1][b].items]) = f_arg.items
        /\ f_arg.items = <<>> => f_res[1] = <<>>

\* four items whose first alone exceeds the character limit, packed into
\* several batches
BatchesPartitionWitness ==
    /\ CreatedBatches
    /\ Len(f_arg.items) = 4
    /\ BatchChars(<<f_arg.items[1]>>) > f_arg.max_chars
    /\ Len(f_res[1]) \in 2..3
    /\ \E b \in 1..Len(f_res[1]) : Len(f_res[1][b].items) = 2

(***************************************************************************)
(* Termination of translate_uif                                            *)
(***************************************************************************)
MaxTasks == 2       \* most batches of one call (five items per batch)

\* a step of batch task i of call c, whichever it is waiting for
TaskStep(c, i) ==
    /\ i \in 1..Len(t_task[c])
    /\ (Acquire(c, i) \/ SendRequest(c, i) \/ Answer(c, i))

\* the event loop runs every task that can run: a sleep ends, a backend
\* call returns or raises, a free permit is handed to a waiting task, and
\* the gather resumes once its tasks are done
\* a call of two batches and a concurrent call of one batch, same language
TransFairInit ==
    /\ TransInit
    /\ t_orig = [c \in Calls |-> IF c = 1 THEN TreeLong ELSE TreeShort]
    /\ t_lang = [c \in Calls |-> "es"]

\* what Finish(c) does to the call records: the gather has returned
GatherReturns(c) ==
    /\ t_call[c].pc = "gather"
    /\ AllDone(c)
    /\ t_call' = [t_call EXCEPT ![c].pc = "done"]

TransFairSpec ==
    /\ TransFairInit
    /\ [][TransNext]_vars
    /\ \A c \in Calls : WF_t_call(GatherReturns(c))
    /\ \A c \in Calls : \A i \in 1..MaxTasks : WF_vars(TaskStep(c, i))

\* C27: every call that reached its gather eventually returns a tree, with
\* each of its batch tasks done after at most max_retries requests. The
\* permits of the semaphore are all accounted for at every moment: one is
\* out for each task inside the section and none for a task that left it,
\* whether by a returned list or by an exception.
CallsTerminate ==
    /\ [](/\ semaphore = MAX_CONCURRENT - Cardinality(InSection)
          /\ \A c \in Calls : Len(t_task[c]) <= MaxTasks
          /\ \A c \in Calls : \A i \in TaskIds(c) : t_task[c][i].requests <= max_retries)
    /\ \A c \in Calls :
           (t_call[c].pc = "gather")
               ~> (t_call[c].pc = "done" /\ AllDone(c) /\ IsSome(t_store[c].copy))

\* both calls have returned, the semaphore is free again, and one batch left
\* the section by an exception after four requests
CallsTerminateWitness ==
    /\ \A c \in Calls : t_call[c].pc = "done" /\ Len(t_task[c]) >= 1
    /\ semaphore = MAX_CONCURRENT
    /\ \E c \in Calls : \E i \in TaskIds(c) :
           t_task[c][i].result.kind = "raise" /\ t_task[c][i].requests = max_retries

==========================================================================
